---- MODULE Spec2Model ----
(***************************************************************************)
(* A state-machine model of the ratsio NATS client engine:                 *)
(*   src/src/net/connection.rs    - NatsConnection, NatsConnSinkStream     *)
(*   src/src/nats_client/client.rs - NatsClientMultiplexer, NatsClient     *)
(* Every task the code spawns (demultiplexer, control loop, sender,        *)
(* pinger, reconnect handler, dial task, retry timer) and every public     *)
(* call is an action; locks delimit the atomic steps.                      *)
(***************************************************************************)
EXTENDS Integers, Sequences, FiniteSets, TLC

(* ------------------------------ bounds -------------------------------- *)
\* successful reconnects explored (the u64 version never wraps here)
MaxVersion == 1
\* retry timers that may be pending at once
MaxTimers == 1
\* frames the server pushes in one run
MaxIn == 4
\* public calls (publish / subscribe / unsubscribe / request) in one run
MaxOps == 3
\* longest payload a caller submits
MaxLen == 2
\* pinger ticks in one run
MaxTicks == 3
\* opts.ping_max_out
PingMaxOut == 1
\* attempts one connect call makes in one run
MaxTries == 3
\* frames the server pushes in the publish scenario
PubIn == 1
\* frames the server pushes in the reconnect scenario
ReconIn == 2
\* frames the server pushes in the pinger scenario with reconnects
LiveIn == 2
\* frames the server pushes in the handshake scenario
InfoIn == 2
\* frames the server pushes in the subscription scenario
SubIn == 3
\* frames the server pushes in the request scenario
ReqIn == 3

(* ----------------------------- vocabulary ----------------------------- *)
None == {}
Some(x) == {x}
IsSome(o) == o # {}
Get(o) == CHOOSE x \in o : TRUE

Sids == {"s1", "s2"}
InboxSid == "inbox"
AllSids == Sids \cup {InboxSid}
Hosts == {"a", "b"}
init_hosts == <<"a">>
ConnectUrls == {<<>>, <<"b">>}
InfoMaxPayloads == {1}
MaxMsgs == {None, Some(1), Some(2)}
Triggerers == {"stream", "sink", "ping", "retry"}
DialIds == {1, 2}
Hids == {"h1", "h2"}
ClusterUris == {<<"a">>, <<"b">>, <<"b", "a">>}

VARIABLES
    \* ---- NatsConnection ----
    connState,        \* state: (NatsConnectionState, version)
    inner,            \* inner: the transport now installed (its number)
    alive,            \* whether that transport's peer is still there
    infoDue,          \* the server has not yet sent this transport's INFO
    reachable,        \* endpoints a dial can reach right now (environment)
    reconnect_hosts,  \* reconnect_hosts
    trig,             \* per caller: position inside trigger_reconnect/reconnect,
                      \* v0 (the version read at connection.rs:82), by (the
                      \* view that called), addrs (the candidates parsed at 112)
    dial,             \* dial tasks spawned by reconnect(): addrs (the parsed
                      \* candidates), sv (version when spawned), ok (the
                      \* result), cv (connect_version read at connection.rs:117)
    timers,           \* retry timers pending (delay_for)
    signals,          \* reconnect_handler channel: signals not yet handled
    \* ---- NatsClient ----
    sor,              \* opts.subscribe_on_reconnect
    clientState,      \* state: NatsClientState
    server_info,      \* server_info: Option<ServerInfo>
    subs_map,         \* subs_map: sid -> SubscriptionSink (max_count, count)
    chan,             \* per sid: the sink's queue (tx -> rx)
    stream,           \* per sid: the user's stream ("none", "pending", "open",
                      \* "done", "dropped")
    yielded,          \* per sid: what the user's stream has yielded so far
    sendq,            \* per sender generation: frames handed to the sender
    written,          \* per transport: frames written to it
    control,          \* per generation: control channel contents
    ctlOpen,          \* per generation: control loop still running
    gen,              \* demultiplexers / control channels built so far
    cur,              \* generation client.sender and client.control_tx point to
    ping_attempts,    \* ping_attempts counter
    ticks,            \* pinger ticks so far
    hpc,              \* reconnect handler task: position
    req,              \* the request() call in progress
    ret,              \* the last public call and what it returned
    rx,               \* the last frame a demultiplexer took from the transport
    nIn,              \* frames read so far
    nOps,             \* public calls so far
    cleared,          \* sids whose entry a reconnect handler cleared
    recorded,         \* per sid: the last max_msgs unsubscribe recorded, and
                      \* how much the stream had yielded / queued by then
    cc,               \* a NatsClient::connect call: position, options, attempts
    reconnect_handlers, \* reconnect_handlers: the hids registered
    called,           \* per hid: how often the handler has been called
    outcomes,         \* what the sink/stream views have returned so far:
                      \* <<view call, what the transport reported, result>>
    held,             \* per demultiplexer: the frame poll_next gave it that
                      \* its for_each body has not routed yet
    ppc,              \* the pinger task: position inside one tick
    cpc,              \* per control loop: the op in hand and the position in
                      \* its arm
    pubc,             \* the publish() call in progress
    unsubbing,        \* unsubscribe() calls between their two steps
    taken,            \* per sid: the item the user's stream took from the
                      \* queue and its closure has not seen yet
    closing,          \* reconnect handler: the registry entries its close
                      \* loop has yet to visit, in iteration order
    replay,           \* reconnect handler: the registry entries its replay
                      \* has yet to send, in iteration order
    svw,              \* per sender task: its call of the sink view between
                      \* the state check and the inner lock, and its frame
    dpc,              \* per demultiplexer: its poll of the stream view
                      \* between the state check and the inner lock
    ensure_connect    \* opts.ensure_connect

connVars == <<connState, inner, alive, infoDue, reachable, reconnect_hosts,
              trig, dial, timers, signals>>
subVars == <<subs_map, chan, stream, yielded>>
ioVars == <<sendq, written, control, ctlOpen, gen, cur>>
clientVars == <<cc, reconnect_handlers, called, held, ppc, cpc, pubc, unsubbing, taken, replay, closing, svw, dpc, ensure_connect, sor, clientState, server_info, ping_attempts, ticks, hpc, req,
                ret, rx, nIn, nOps, cleared, recorded>>
vars == <<connVars, subVars, ioVars, clientVars, outcomes>>

phase == connState[1]
version == connState[2]

(* ============================ NatsConnection =========================== *)

\* no call of trigger_reconnect under way
IdleTrig == [pc |-> "idle", v0 |-> 0, by |-> 0, addrs |-> <<>>]

\* A caller enters trigger_reconnect (the closure built at client.rs:155/229,
\* called by the view of generation g; the pinger at client.rs:206; the retry
\* at connection.rs:133).
CallTrigger(t, g) ==
    [trig EXCEPT ![t] = [pc |-> "read", v0 |-> 0, by |-> g, addrs |-> <<>>]]

\* connection.rs:261-271, 282-292, 307-317  a view holds the inner write lock
\* from its try_write to its return, its call of the reconnect trigger (264,
\* 285, 310) included.
InnerLocked == trig["sink"].pc # "idle" \/ trig["stream"].pc # "idle"

\* Another task is at a step that takes the inner lock (connection.rs:121,
\* 261, 282, 307; client.rs:378): the inner.try_write() of view (view, g) may
\* find the lock taken.
InnerBusy(view, g) ==
    \/ \E h \in 0..gen : dpc[h] = "checked" /\ ~(view = "stream" /\ h = g)
    \/ \E h \in 0..gen : svw[h].pc # "idle" /\ ~(view = "sink" /\ h = g)
    \/ \E h \in 0..gen : cpc[h].pc = "generate"
    \/ \E d \in DialIds : dial[d].pc = "resolved" /\ dial[d].ok

\* A writer of the connection state is at its write (connection.rs:84, 104,
\* 122, 129): the state.try_read() of a view may find the lock taken.
StateBusy ==
    \/ \E t \in Triggerers : trig[t].pc \in {"decide", "reconnect"}
    \/ \E d \in DialIds :
           dial[d].pc = "installed" \/ (dial[d].pc = "resolved" /\ ~dial[d].ok)

\* connection.rs:82  let connect_version = conn.state.read().1;
TrigRead(t) ==
    /\ trig[t].pc = "read"
    /\ trig' = [trig EXCEPT ![t].pc = "decide", ![t].v0 = version]
    /\ UNCHANGED <<connState, inner, alive, infoDue, reachable, reconnect_hosts, dial,
                   timers, signals>>
    /\ UNCHANGED <<subVars, ioVars, clientVars, outcomes>>

\* connection.rs:84-97, one hold of the state write lock.
\* (TrigDecideNoGuard: the decision without its two early returns.)
TrigDecideNoGuard(t) ==
    /\ trig[t].pc = "decide"
    /\ connState' = <<"Disconnected", version>>
    /\ trig' = [trig EXCEPT ![t].pc = "reconnect"]
    /\ UNCHANGED <<inner, alive, infoDue, reachable, reconnect_hosts, dial, timers, signals>>
    /\ UNCHANGED <<subVars, ioVars, clientVars, outcomes>>

\* (TrigDecideNoVersion: the decision without the version comparison.)
TrigDecideNoVersion(t) ==
    /\ trig[t].pc = "decide"
    /\ IF phase = "Reconnecting"
          THEN /\ trig' = [trig EXCEPT ![t] = IdleTrig]
               /\ UNCHANGED connState
       ELSE /\ connState' = <<"Disconnected", version>>
            /\ trig' = [trig EXCEPT ![t].pc = "reconnect"]
    /\ UNCHANGED <<inner, alive, infoDue, reachable, reconnect_hosts, dial, timers, signals>>
    /\ UNCHANGED <<subVars, ioVars, clientVars, outcomes>>

TrigDecide(t) ==
    /\ trig[t].pc = "decide"
    /\ IF phase = "Reconnecting"
          THEN /\ trig' = [trig EXCEPT ![t] = IdleTrig]
               /\ UNCHANGED connState
       ELSE IF phase = "Connected" /\ version > trig[t].v0
          THEN /\ trig' = [trig EXCEPT ![t] = IdleTrig]
               /\ UNCHANGED connState
       ELSE /\ connState' = <<"Disconnected", version>>
            /\ trig' = [trig EXCEPT ![t].pc = "reconnect"]
    /\ UNCHANGED <<inner, alive, infoDue, reachable, reconnect_hosts, dial, timers, signals>>
    /\ UNCHANGED <<subVars, ioVars, clientVars, outcomes>>

FreeDials == {d \in DialIds : dial[d].pc = "free"}
\* dial tasks whose attempt has not completed: the outcome is not yet written
\* to the state (connection.rs:122 / 129)
InFlight == {d \in DialIds : dial[d].pc \in {"dialing", "resolved", "installed"}}
\* callers that hold the Reconnecting phase and have not spawned their dial
Spawning == {t \in Triggerers : trig[t].pc \in {"hosts", "spawn"}}

\* connection.rs:101-110  reconnect(): the Disconnected -> Reconnecting step
\* under the state write lock; from any other phase the call returns.
TrigReconnect(t) ==
    /\ trig[t].pc = "reconnect"
    /\ IF phase = "Disconnected"
          THEN /\ connState' = <<"Reconnecting", version>>
               /\ trig' = [trig EXCEPT ![t].pc = "hosts"]
          ELSE /\ trig' = [trig EXCEPT ![t] = IdleTrig]
               /\ UNCHANGED connState
    /\ UNCHANGED <<inner, alive, infoDue, reachable, reconnect_hosts, dial, timers,
                   signals, subVars, ioVars, clientVars, outcomes>>

\* connection.rs:112-113  the state lock released: the candidates are parsed
\* from reconnect_hosts under its read lock.
TrigHosts(t) ==
    /\ trig[t].pc = "hosts"
    /\ trig' = [trig EXCEPT ![t].pc = "spawn", ![t].addrs = reconnect_hosts]
    /\ UNCHANGED <<connState, inner, alive, infoDue, reachable, reconnect_hosts, dial,
                   timers, signals, subVars, ioVars, clientVars, outcomes>>

\* connection.rs:115  tokio::spawn of the dial task with the candidates
\* parsed at 112; reconnect() and trigger_reconnect return.
TrigSpawn(t) ==
    /\ trig[t].pc = "spawn"
    /\ FreeDials # {}
    /\ trig' = [trig EXCEPT ![t] = IdleTrig]
    /\ LET d == CHOOSE x \in FreeDials : \A y \in FreeDials : x <= y
       IN dial' = [dial EXCEPT ![d] = [pc |-> "dialing",
                                        addrs |-> trig[t].addrs,
                                        sv |-> version,
                                        ok |-> FALSE, cv |-> 0]]
    /\ UNCHANGED <<connState, inner, alive, infoDue, reachable, reconnect_hosts, timers,
                   signals, subVars, ioVars, clientVars, outcomes>>

\* connection.rs:205-247  get_conn_inner.  No candidate: NoRouteToHostError
\* (207-210).  Otherwise the first pass of loop_fn dials cluster_addrs[0] and
\* .then(|inner| Ok(Loop::Break(inner))) (236-238) ends the loop with that
\* dial's result, success or failure; the or_else that would go on with the
\* remaining candidates (239-245) is never reached.
GetConnInner(addrs, up) ==
    IF addrs = <<>> THEN FALSE
    ELSE Head(addrs) \in up

\* connection.rs:116-117  the dial resolves; the closure reads the version.
DialResolve(d) ==
    /\ dial[d].pc = "dialing"
    /\ LET ok == GetConnInner(dial[d].addrs, reachable)
       IN /\ ok => version < MaxVersion
          /\ ~ok => timers < MaxTimers
          /\ dial' = [dial EXCEPT ![d] = [pc |-> "resolved", addrs |-> @.addrs,
                                           sv |-> @.sv,
                                           ok |-> ok, cv |-> version]]
    /\ UNCHANGED <<connState, inner, alive, infoDue, reachable, reconnect_hosts, trig,
                   timers, signals>>
    /\ UNCHANGED <<subVars, ioVars, clientVars, outcomes>>

FreeDial == [pc |-> "free", addrs |-> <<>>, sv |-> 0, ok |-> FALSE, cv |-> 0]

\* connection.rs:121  Ok(new_inner): the transport is installed under the
\* inner write lock, which the task waits for while a view holds it.
DialInstall(d) ==
    /\ dial[d].pc = "resolved" /\ dial[d].ok
    /\ ~InnerLocked
    /\ inner' = inner + 1
    /\ alive' = TRUE
    /\ infoDue' = TRUE
    /\ dial' = [dial EXCEPT ![d].pc = "installed"]
    /\ UNCHANGED <<connState, reachable, reconnect_hosts, trig, timers, signals, subVars,
                   ioVars, clientVars, outcomes>>

\* connection.rs:122  (Connected, connect_version + 1) under the state write
\* lock.
\* (DialOkNoIncrement: the version written back as read.)
DialOkNoIncrement(d) ==
    /\ dial[d].pc = "installed"
    /\ connState' = <<"Connected", dial[d].cv>>
    /\ dial' = [dial EXCEPT ![d].pc = "signal"]
    /\ UNCHANGED <<inner, alive, infoDue, reachable, reconnect_hosts, trig, timers,
                   signals, subVars, ioVars, clientVars, outcomes>>

DialOk(d) ==
    /\ dial[d].pc = "installed"
    /\ connState' = <<"Connected", dial[d].cv + 1>>
    /\ dial' = [dial EXCEPT ![d].pc = "signal"]
    /\ UNCHANGED <<inner, alive, infoDue, reachable, reconnect_hosts, trig, timers,
                   signals, subVars, ioVars, clientVars, outcomes>>

\* connection.rs:123  the reconnect handler is signalled; the dial task ends.
DialSignal(d) ==
    /\ dial[d].pc = "signal"
    /\ signals' = signals + 1
    /\ dial' = [dial EXCEPT ![d] = FreeDial]
    /\ UNCHANGED <<connState, inner, alive, infoDue, reachable, reconnect_hosts, trig,
                   timers, subVars, ioVars, clientVars, outcomes>>

\* connection.rs:127-129  Err: (Disconnected, connect_version) under the state
\* write lock.
DialErr(d) ==
    /\ dial[d].pc = "resolved" /\ ~dial[d].ok
    /\ connState' = <<"Disconnected", dial[d].cv>>
    /\ dial' = [dial EXCEPT ![d].pc = "failed"]
    /\ UNCHANGED <<inner, alive, infoDue, reachable, reconnect_hosts, trig, timers,
                   signals, subVars, ioVars, clientVars, outcomes>>

\* connection.rs:131-135  the retry is scheduled after reconnect_timeout; the
\* dial task ends.
DialArm(d) ==
    /\ dial[d].pc = "failed"
    /\ timers' = timers + 1
    /\ dial' = [dial EXCEPT ![d] = FreeDial]
    /\ UNCHANGED <<connState, inner, alive, infoDue, reachable, reconnect_hosts, trig,
                   signals, subVars, ioVars, clientVars, outcomes>>

\* connection.rs:131-134  the delay elapses and the retry task calls
\* trigger_reconnect.
RetryFire ==
    /\ timers > 0
    /\ trig["retry"].pc = "idle"
    /\ timers' = timers - 1
    /\ trig' = CallTrigger("retry", 0)
    /\ UNCHANGED <<connState, inner, alive, infoDue, reachable, reconnect_hosts, dial, signals>>
    /\ UNCHANGED <<subVars, ioVars, clientVars, outcomes>>

(* ---- environment: the peer goes away; endpoints come and go ---- *)
TransportDies ==
    /\ alive
    /\ version < MaxVersion
    /\ alive' = FALSE
    /\ UNCHANGED <<connState, inner, infoDue, reachable, reconnect_hosts, trig, dial,
                   timers, signals>>
    /\ UNCHANGED <<subVars, ioVars, clientVars, outcomes>>

\* an endpoint becomes reachable, and stays so
ReachGain ==
    /\ \E h \in Hosts \ reachable : reachable' = reachable \cup {h}
    /\ UNCHANGED <<connState, inner, alive, infoDue, reconnect_hosts, trig, dial,
                   timers, signals>>
    /\ UNCHANGED <<subVars, ioVars, clientVars, outcomes>>

ReachChange ==
    /\ \E r \in SUBSET Hosts : r # reachable /\ reachable' = r
    /\ UNCHANGED <<connState, inner, alive, infoDue, reconnect_hosts, trig, dial,
                   timers, signals>>
    /\ UNCHANGED <<subVars, ioVars, clientVars, outcomes>>

(* ================================ frames =============================== *)
Frame(op, sid, v) == [op |-> op, sid |-> sid, v |-> v]
PING == Frame("PING", "", 0)
PONG == Frame("PONG", "", 0)
CONNECT == Frame("CONNECT", "", 0)
CLOSE == Frame("CLOSE", "", 0)
PUB(len) == Frame("PUB", "", len)
SUB(sid) == Frame("SUB", sid, 0)
\* UNSUB carries max_msgs: Option<u32>
UNSUB(sid, max) == [op |-> "UNSUB", sid |-> sid, v |-> 0, max |-> max]
\* INFO carries ServerInfo: max_payload and connect_urls
INFO(mp, urls) == [op |-> "INFO", sid |-> "", v |-> mp, urls |-> urls]
\* MSG carries its sid; v numbers the messages in the order the server sent them
MSG(sid, n) == Frame("MSG", sid, n)

\* What the server may push next on the installed transport: INFO opens every
\* transport; after it come MSG, PING, PONG, -ERR, +OK and further INFO.
ServerFrames ==
    IF infoDue
       THEN {INFO(mp, u) : mp \in InfoMaxPayloads, u \in ConnectUrls}
       ELSE {MSG(sid, nIn + 1) : sid \in AllSids}
            \cup {PING, PONG, Frame("ERR", "", 0), Frame("OK", "", 0)}
            \cup {INFO(mp, u) : mp \in InfoMaxPayloads, u \in ConnectUrls}

AllFrames ==
    {MSG(sid, n) : sid \in AllSids, n \in 1..MaxIn}
    \cup {PING, PONG, Frame("ERR", "", 0), Frame("OK", "", 0)}
    \cup {INFO(mp, u) : mp \in InfoMaxPayloads, u \in ConnectUrls}

\* SinkMessage
Message(n) == [k |-> "Message", v |-> n]
SinkClose == [k |-> "CLOSE", v |-> 0]
\* items of the user's stream
Ok(n) == [k |-> "Ok", v |-> n]
Err(n) == [k |-> "SubscriptionReachedMaxMsgs", v |-> n]

(* ================================ Sender ================================ *)
\* NatsClientSender::send(op): hand one frame to the sender bound to the sink.
SenderSend(q, g, op) == [q EXCEPT ![g] = Append(@, op)]

(* ========================= NatsConnSinkStream ========================== *)
\* connection.rs:263-266, 284-287, 309-312  the ServerDisconnected arm of a
\* view of generation g: the reconnect trigger is invoked, the inner lock
\* still held, and the caller gets res.
\* (DisconnectedPropagates: the error goes to the caller, no trigger.)
DisconnectedPropagates(t, g, view, res) ==
    /\ UNCHANGED trig
    /\ outcomes' = outcomes \cup {<<view, "ServerDisconnected", "Err">>}

Disconnected(t, g, view, res) ==
    /\ trig' = CallTrigger(t, g)
    /\ outcomes' = outcomes \cup {<<view, "ServerDisconnected", res>>}

\* a sender task outside the sink view
IdleView == [pc |-> "idle", f |-> CLOSE]

\* sender task g is not inside the reconnect trigger its own view called
SinkFree(g) == ~(trig["sink"].pc # "idle" /\ trig["sink"].by = g)

\* connection.rs:253-259  Sink::start_send, called by sender task g with the
\* next frame: the phase is read under state.try_read().  Not Connected, or
\* the state lock taken (busy): Ok(()), the frame gone.
StartSend(g, busy) ==
    /\ g \in 0..gen
    /\ sendq[g] # <<>>
    /\ svw[g].pc = "idle"
    /\ SinkFree(g)
    /\ busy => StateBusy
    /\ sendq' = [sendq EXCEPT ![g] = Tail(@)]
    /\ IF phase # "Connected" \/ busy
          THEN /\ outcomes' = outcomes \cup {<<"start_send", "unused", "Ok">>}
               /\ UNCHANGED svw
          ELSE /\ svw' = [svw EXCEPT ![g] = [pc |-> "send", f |-> Head(sendq[g])]]
               /\ UNCHANGED outcomes
    /\ UNCHANGED <<connVars, subVars, written, control, ctlOpen, gen, cur, cc,
                   reconnect_handlers, called, held, ppc, cpc, pubc, unsubbing, taken,
                   replay, closing, dpc, ensure_connect, sor, clientState, server_info, ping_attempts,
                   ticks, hpc, req, ret, rx, nIn, nOps, cleared, recorded>>

\* connection.rs:261-271  start_send after the state check: inner.try_write().
\* The lock held by a view inside its trigger, or taken at that moment by
\* another task at its step under the lock (busy): Ok(()), the frame gone.
\* ServerDisconnected from the transport: the reconnect trigger, Ok(()).
\* Otherwise the frame is written to the transport now installed.
StartSendWrite(g, busy) ==
    /\ svw[g].pc = "send"
    /\ busy => InnerBusy("sink", g)
    /\ svw' = [svw EXCEPT ![g] = IdleView]
    /\ IF InnerLocked \/ busy
          THEN /\ outcomes' = outcomes \cup {<<"start_send", "unused", "Ok">>}
               /\ UNCHANGED <<written, trig>>
       ELSE IF ~alive
          THEN /\ Disconnected("sink", g, "start_send", "Ok")
               /\ UNCHANGED written
       ELSE /\ written' = [written EXCEPT ![inner] = Append(@, svw[g].f)]
            /\ outcomes' = outcomes \cup {<<"start_send", "Ok", "Ok">>}
            /\ UNCHANGED trig
    /\ UNCHANGED <<connState, inner, alive, infoDue, reachable, reconnect_hosts, dial,
                   timers, signals, subVars, sendq, control, ctlOpen, gen, cur, cc,
                   reconnect_handlers, called, held, ppc, cpc, pubc, unsubbing, taken,
                   replay, closing, dpc, ensure_connect, sor, clientState, server_info, ping_attempts,
                   ticks, hpc, req, ret, rx, nIn, nOps, cleared, recorded>>

\* connection.rs:274-280  Sink::poll_flush polled by sender task g: the phase
\* read under state.try_read() is Connected.  (Not Connected, or the state
\* lock taken: Pending, no step.)
PollFlush(g) ==
    /\ g \in 0..gen
    /\ svw[g].pc = "idle"
    /\ SinkFree(g)
    /\ phase = "Connected"
    /\ svw' = [svw EXCEPT ![g] = [pc |-> "flush", f |-> CLOSE]]
    /\ UNCHANGED <<connVars, subVars, ioVars, cc, reconnect_handlers, called, held, ppc,
                   cpc, pubc, unsubbing, taken, replay, closing, dpc, ensure_connect, sor, clientState,
                   server_info, ping_attempts, ticks, hpc, req, ret, rx, nIn, nOps,
                   cleared, recorded, outcomes>>

\* connection.rs:282-287  poll_flush after the state check: inner.try_write()
\* succeeds and the transport reports ServerDisconnected: the reconnect
\* trigger, Pending.
FlushDisconnected(g) ==
    /\ svw[g].pc = "flush"
    /\ ~InnerLocked
    /\ ~alive
    /\ svw' = [svw EXCEPT ![g] = IdleView]
    /\ Disconnected("sink", g, "poll_flush", "Pending")
    /\ UNCHANGED <<connState, inner, alive, infoDue, reachable, reconnect_hosts, dial,
                   timers, signals, subVars, ioVars, cc, reconnect_handlers, called,
                   held, ppc, cpc, pubc, unsubbing, taken, replay, closing, dpc, ensure_connect, sor,
                   clientState, server_info, ping_attempts, ticks, hpc, req, ret, rx,
                   nIn, nOps, cleared, recorded>>

\* connection.rs:288-292  poll_flush after the state check: the inner lock is
\* taken (Pending), or the transport's own poll_flush result is passed on.
FlushReturn(g) ==
    /\ svw[g].pc = "flush"
    /\ InnerLocked \/ InnerBusy("sink", g) \/ alive
    /\ svw' = [svw EXCEPT ![g] = IdleView]
    /\ UNCHANGED <<connVars, subVars, ioVars, cc, reconnect_handlers, called, held, ppc,
                   cpc, pubc, unsubbing, taken, replay, closing, dpc, ensure_connect, sor, clientState,
                   server_info, ping_attempts, ticks, hpc, req, ret, rx, nIn, nOps,
                   cleared, recorded, outcomes>>

(* ======================== NatsClientMultiplexer ======================== *)
\* client.rs:32-42  the for_each body: route one frame.
\* (RouteBroadcast: a MSG pushed to every registered sink.)
RouteBroadcast(g, f) ==
    IF f.op = "MSG"
       THEN /\ chan' = [s \in AllSids |->
                          IF s \in DOMAIN subs_map
                             THEN Append(chan[s], Message(f.v)) ELSE chan[s]]
            /\ UNCHANGED control
       ELSE /\ control' = IF ctlOpen[g]
                             THEN [control EXCEPT ![g] = Append(@, f)]
                             ELSE control
            /\ UNCHANGED chan

Route(g, f) ==
    IF f.op = "MSG"
       THEN /\ chan' = IF f.sid \in DOMAIN subs_map /\ stream[f.sid] # "dropped"
                          THEN [chan EXCEPT ![f.sid] = Append(@, Message(f.v))]
                          ELSE chan
            /\ UNCHANGED control
       ELSE /\ control' = IF ctlOpen[g]
                             THEN [control EXCEPT ![g] = Append(@, f)]
                             ELSE control
            /\ UNCHANGED chan

\* demultiplexer g is not inside the reconnect trigger its own view called
StreamFree(g) == ~(trig["stream"].pc # "idle" /\ trig["stream"].by = g)

\* connection.rs:299-305  Stream::poll_next polled by demultiplexer g: the
\* phase read under state.try_read() is Connected.  (Not Connected, or the
\* state lock taken: Pending, no step.)
PollNext(g) ==
    /\ g \in 0..gen
    /\ dpc[g] = "idle"
    /\ held[g] = None
    /\ StreamFree(g)
    /\ phase = "Connected"
    /\ dpc' = [dpc EXCEPT ![g] = "checked"]
    /\ UNCHANGED <<connVars, subVars, ioVars, cc, reconnect_handlers, called, held, ppc,
                   cpc, pubc, unsubbing, taken, replay, closing, svw, ensure_connect, sor, clientState,
                   server_info, ping_attempts, ticks, hpc, req, ret, rx, nIn, nOps,
                   cleared, recorded, outcomes>>

\* connection.rs:307-312  poll_next after the state check: inner.try_write()
\* succeeds and the transport reports ServerDisconnected: the reconnect
\* trigger, Pending.
DemuxDisconnected(g) ==
    /\ dpc[g] = "checked"
    /\ ~InnerLocked
    /\ ~alive
    /\ dpc' = [dpc EXCEPT ![g] = "idle"]
    /\ Disconnected("stream", g, "poll_next", "Pending")
    /\ UNCHANGED <<connState, inner, alive, infoDue, reachable, reconnect_hosts, dial,
                   timers, signals, subVars, ioVars, cc, reconnect_handlers, called,
                   held, ppc, cpc, pubc, unsubbing, taken, replay, closing, svw, ensure_connect, sor,
                   clientState, server_info, ping_attempts, ticks, hpc, req, ret, rx,
                   nIn, nOps, cleared, recorded>>

\* connection.rs:307-317  poll_next after the state check: the inner lock is
\* taken, or the transport has no frame ready: Pending.
DemuxPending(g) ==
    /\ dpc[g] = "checked"
    /\ InnerLocked \/ InnerBusy("stream", g) \/ alive
    /\ dpc' = [dpc EXCEPT ![g] = "idle"]
    /\ UNCHANGED <<connVars, subVars, ioVars, cc, reconnect_handlers, called, held, ppc,
                   cpc, pubc, unsubbing, taken, replay, closing, svw, ensure_connect, sor, clientState,
                   server_info, ping_attempts, ticks, hpc, req, ret, rx, nIn, nOps,
                   cleared, recorded, outcomes>>

\* connection.rs:307-313  poll_next after the state check: inner.try_write()
\* succeeds and the transport now installed yields frame f; the frame is in
\* the task's hands.
DemuxRead(g, f) ==
    /\ dpc[g] = "checked"
    /\ ~InnerLocked
    /\ alive
    /\ nIn < MaxIn
    /\ f \in ServerFrames
    /\ dpc' = [dpc EXCEPT ![g] = "idle"]
    /\ held' = [held EXCEPT ![g] = Some([n |-> nIn + 1, f |-> f])]
    /\ nIn' = nIn + 1
    /\ infoDue' = FALSE
    /\ outcomes' = outcomes \cup {<<"poll_next", "Ok", "Ready">>}
    /\ UNCHANGED <<connState, inner, alive, reachable, reconnect_hosts, trig, dial,
                   timers, signals, subVars, ioVars, cc, reconnect_handlers, called, ppc,
                   cpc, pubc, unsubbing, taken, replay, closing, svw, ensure_connect, sor, clientState,
                   server_info, ping_attempts, ticks, hpc, req, ret, rx, nOps, cleared,
                   recorded>>

\* client.rs:32-46  the for_each body of demultiplexer g routes the frame it
\* holds, the inner lock released.
DemuxRoute(g) ==
    /\ held[g] # None
    /\ Route(g, Get(held[g]).f)
    /\ rx' = [n |-> Get(held[g]).n, g |-> g, f |-> Get(held[g]).f]
    /\ held' = [held EXCEPT ![g] = None]
    /\ UNCHANGED <<connVars, subs_map, stream, yielded, sendq, written, ctlOpen, gen, cur>>
    /\ UNCHANGED <<cc, reconnect_handlers, called, outcomes, ppc, cpc, pubc, unsubbing,
                   taken, replay, closing, svw, dpc, ensure_connect, sor, clientState,
                   server_info, ping_attempts, ticks, hpc, req, ret, nIn, nOps,
                   cleared, recorded>>

(* ============================ control loop ============================= *)
\* a control loop with no op in hand
IdleLoop == [pc |-> "idle", f |-> CLOSE]

\* client.rs:281-306, 323-332  control loop g takes one op from its channel:
\* CLOSE ends the loop (take_while); PING and INFO reset the counter and go
\* on with their arm; PONG and the remaining ops reset the counter; ERR is
\* logged.  The loop is spawned with its channel (238), before the client's
\* sender is replaced (241).
ControlStep(g) ==
    /\ g \in 0..gen
    /\ ctlOpen[g]
    /\ cpc[g].pc = "idle"
    /\ control[g] # <<>>
    /\ LET f == Head(control[g]) IN
       IF f.op = "CLOSE"
          THEN /\ ctlOpen' = [ctlOpen EXCEPT ![g] = FALSE]
               /\ control' = [control EXCEPT ![g] = <<>>]
               /\ UNCHANGED <<ping_attempts, cpc>>
       ELSE /\ control' = [control EXCEPT ![g] = Tail(@)]
            /\ UNCHANGED ctlOpen
            /\ IF f.op = "PING"
                  THEN /\ ping_attempts' = 0
                       /\ cpc' = [cpc EXCEPT ![g] = [pc |-> "pong", f |-> f]]
               ELSE IF f.op = "INFO"
                  THEN /\ ping_attempts' = 0
                       /\ cpc' = [cpc EXCEPT ![g] = [pc |-> "store", f |-> f]]
               ELSE IF f.op = "ERR"
                  THEN UNCHANGED <<ping_attempts, cpc>>
               ELSE /\ ping_attempts' = 0
                    /\ UNCHANGED cpc
    /\ UNCHANGED <<connVars, subVars, sendq, written, gen, cur, cc, reconnect_handlers,
                   called, held, ppc, pubc, unsubbing, taken, replay, closing, svw, dpc, ensure_connect, sor, clientState,
                   server_info, ticks, hpc, req, ret, rx, nIn, nOps, cleared, recorded,
                   outcomes>>

\* client.rs:292  Op::PING: PONG handed to the client's sender.
CtlPong(g) ==
    /\ cpc[g].pc = "pong"
    /\ sendq' = SenderSend(sendq, cur, PONG)
    /\ cpc' = [cpc EXCEPT ![g] = IdleLoop]
    /\ UNCHANGED <<connVars, subVars, written, control, ctlOpen, gen, cur, cc,
                   reconnect_handlers, called, held, ppc, pubc, unsubbing, taken, replay, closing, svw, dpc, ensure_connect, sor,
                   clientState, server_info, ping_attempts, ticks, hpc, req, ret, rx,
                   nIn, nOps, cleared, recorded, outcomes>>

\* client.rs:307  Op::INFO: server_info written.
InfoStore(g) ==
    /\ cpc[g].pc = "store"
    /\ server_info' = Some([max_payload |-> cpc[g].f.v, connect_urls |-> cpc[g].f.urls])
    /\ cpc' = [cpc EXCEPT ![g].pc = "hosts"]
    /\ UNCHANGED <<connVars, subVars, ioVars, cc, reconnect_handlers, called, held, ppc,
                   pubc, unsubbing, taken, replay, closing, svw, dpc, ensure_connect, sor, clientState, ping_attempts, ticks, hpc,
                   req, ret, rx, nIn, nOps, cleared, recorded, outcomes>>

\* client.rs:308-312  Op::INFO: reconnect_hosts written.
InfoHosts(g) ==
    /\ cpc[g].pc = "hosts"
    /\ reconnect_hosts' = cpc[g].f.urls \o init_hosts
    /\ cpc' = [cpc EXCEPT ![g].pc = "generate"]
    /\ UNCHANGED <<connState, inner, alive, infoDue, reachable, trig, dial, timers,
                   signals, subVars, ioVars, cc, reconnect_handlers, called, held, ppc,
                   pubc, unsubbing, taken, replay, closing, svw, dpc, ensure_connect, sor, clientState, server_info, ping_attempts,
                   ticks, hpc, req, ret, rx, nIn, nOps, cleared, recorded, outcomes>>

\* client.rs:313, 344-387  Op::INFO: generate_connect reads the node url
\* under connection.inner.read() (378), which waits while a view holds the
\* inner write lock.
InfoGenerate(g) ==
    /\ cpc[g].pc = "generate"
    /\ ~InnerLocked
    /\ cpc' = [cpc EXCEPT ![g].pc = "connect"]
    /\ UNCHANGED <<connVars, subVars, ioVars, cc, reconnect_handlers, called, held, ppc,
                   pubc, unsubbing, taken, replay, closing, svw, dpc, ensure_connect, sor, clientState,
                   server_info, ping_attempts, ticks, hpc, req, ret, rx, nIn, nOps,
                   cleared, recorded, outcomes>>

\* client.rs:317-320  Op::INFO: CONNECT handed to the client's sender.
InfoConnect(g) ==
    /\ cpc[g].pc = "connect"
    /\ sendq' = SenderSend(sendq, cur, CONNECT)
    /\ cpc' = [cpc EXCEPT ![g].pc = "state"]
    /\ UNCHANGED <<connVars, subVars, written, control, ctlOpen, gen, cur, cc,
                   reconnect_handlers, called, held, ppc, pubc, unsubbing, taken, replay, closing,
                   svw, dpc, ensure_connect, sor, clientState, server_info, ping_attempts, ticks,
                   hpc, req, ret, rx, nIn, nOps, cleared, recorded, outcomes>>

\* client.rs:321  Op::INFO: the client state set Connected.
InfoState(g) ==
    /\ cpc[g].pc = "state"
    /\ clientState' = "Connected"
    /\ cpc' = [cpc EXCEPT ![g] = IdleLoop]
    /\ UNCHANGED <<connVars, subVars, ioVars, cc, reconnect_handlers, called, held, ppc,
                   pubc, unsubbing, taken, replay, closing, svw, dpc, ensure_connect, sor, server_info, ping_attempts, ticks, hpc,
                   req, ret, rx, nIn, nOps, cleared, recorded, outcomes>>

(* ============================ liveness pinger ========================== *)
\* client.rs:193-195  one tick of the interval: the client state is read.
PingTick ==
    /\ ticks < MaxTicks
    /\ ppc = "idle"
    /\ trig["ping"].pc = "idle"
    /\ ticks' = ticks + 1
    /\ ppc' = IF clientState = "Connected" THEN "send" ELSE "idle"
    /\ UNCHANGED <<connVars, subVars, ioVars, cc, reconnect_handlers, called, held, cpc,
                   pubc, unsubbing, taken, replay, closing, svw, dpc, ensure_connect, sor, clientState, server_info, ping_attempts,
                   hpc, req, ret, rx, nIn, nOps, cleared, recorded, outcomes>>

\* client.rs:197  PING handed to the client's sender.
PingSend ==
    /\ ppc = "send"
    /\ sendq' = SenderSend(sendq, cur, PING)
    /\ ppc' = "inc"
    /\ UNCHANGED <<connVars, subVars, written, control, ctlOpen, gen, cur, cc,
                   reconnect_handlers, called, held, cpc, pubc, unsubbing, taken, replay, closing, svw, dpc, ensure_connect, sor,
                   clientState, server_info, ping_attempts, ticks, hpc, req, ret, rx,
                   nIn, nOps, cleared, recorded, outcomes>>

\* client.rs:198-203  ConsistentCounter::inc returns the value before the
\* increment; that value is compared with ping_max_out.
PingInc ==
    /\ ppc = "inc"
    /\ ping_attempts' = ping_attempts + 1
    /\ LET attempts == ping_attempts IN
       ppc' = IF attempts > PingMaxOut THEN "breach" ELSE "idle"
    /\ UNCHANGED <<connVars, subVars, ioVars, cc, reconnect_handlers, called, held, cpc,
                   pubc, unsubbing, taken, replay, closing, svw, dpc, ensure_connect, sor, clientState, server_info, ticks, hpc,
                   req, ret, rx, nIn, nOps, cleared, recorded, outcomes>>

\* client.rs:205-206  the breach: client state Disconnected, then
\* trigger_reconnect is entered.
PingBreach ==
    /\ ppc = "breach"
    /\ clientState' = "Disconnected"
    /\ trig' = CallTrigger("ping", 0)
    /\ ppc' = "idle"
    /\ UNCHANGED <<connState, inner, alive, infoDue, reachable, reconnect_hosts, dial,
                   timers, signals, subVars, ioVars, cc, reconnect_handlers, called,
                   held, cpc, pubc, unsubbing, taken, replay, closing, svw, dpc, ensure_connect, sor, server_info, ping_attempts,
                   ticks, hpc, req, ret, rx, nIn, nOps, cleared, recorded, outcomes>>

(* ========================== subscription registry ====================== *)
EmptyMap == [s \in {} |-> 0]
Insert(m, sid, e) == [s \in DOMAIN m \cup {sid} |-> IF s = sid THEN e ELSE m[s]]
Remove(m, sid) == [s \in DOMAIN m \ {sid} |-> m[s]]
\* client.rs:66-71  a fresh SubscriptionSink
NewSink == [max_count |-> None, count |-> 0]

(* ============================ public calls ============================= *)
Result(k, v) == [k |-> k, v |-> v]
Call(op, sid, len, max, res) ==
    [n |-> nOps + 1, op |-> op, sid |-> sid, len |-> len, max |-> max, res |-> res]
NoCall == [n |-> 0, op |-> "", sid |-> "", len |-> 0, max |-> None,
           res |-> Result("", 0)]

\* client.rs:396-402 / 471-477  the payload check of publish and request
\* (OverflowsAtLimit: the comparison taken as >=.)
OverflowsAtLimit(len) == IsSome(server_info) /\ len >= Get(server_info).max_payload

Overflows(len) == IsSome(server_info) /\ len > Get(server_info).max_payload

\* the registry's lock is free for a writer: the reconnect handler is not
\* iterating the registry under its read lock (client.rs:216, 252)
RegistryFree == hpc \notin {"closing", "replaying"}

\* client.rs:392-402  publish: the payload check under server_info.read().
Publish(len) ==
    /\ nOps < MaxOps
    /\ pubc.pc = "none"
    /\ nOps' = nOps + 1
    /\ IF Overflows(len)
          THEN /\ ret' = Call("publish", "", len, None,
                              Result("MaxPayloadOverflow", Get(server_info).max_payload))
               /\ UNCHANGED pubc
          ELSE /\ pubc' = [pc |-> "send", len |-> len, n |-> nOps + 1]
               /\ UNCHANGED ret
    /\ UNCHANGED <<connVars, subVars, ioVars, cc, reconnect_handlers, called, held, ppc,
                   cpc, unsubbing, taken, replay, closing, svw, dpc, ensure_connect, sor, clientState, server_info,
                   ping_attempts, ticks, hpc, req, rx, nIn, cleared, recorded, outcomes>>

\* client.rs:403  publish: PUB handed to the client's sender.
PublishSend ==
    /\ pubc.pc = "send"
    /\ sendq' = SenderSend(sendq, cur, PUB(pubc.len))
    /\ ret' = [Call("publish", "", pubc.len, None, Result("Ok", 0)) EXCEPT !.n = pubc.n]
    /\ pubc' = [pc |-> "none", len |-> 0, n |-> 0]
    /\ UNCHANGED <<connVars, subVars, written, control, ctlOpen, gen, cur, cc,
                   reconnect_handlers, called, held, ppc, cpc, unsubbing, taken, replay, closing,
                   svw, dpc, ensure_connect, sor, clientState, server_info, ping_attempts, ticks, hpc, req, rx,
                   nIn, nOps, cleared, recorded, outcomes>>

\* client.rs:409-417  unsubscribe: max_msgs recorded on the entry under the
\* registry's write lock.
Unsubscribe(sid, max) ==
    /\ nOps < MaxOps
    /\ IsSome(max) => RegistryFree
    /\ nOps' = nOps + 1
    /\ subs_map' = IF IsSome(max) /\ sid \in DOMAIN subs_map
                      THEN [subs_map EXCEPT ![sid].max_count = max]
                      ELSE subs_map
    /\ recorded' = IF IsSome(max) /\ sid \in DOMAIN subs_map
                      THEN [recorded EXCEPT ![sid] =
                              [n |-> max, at |-> Len(yielded[sid]),
                               queued |-> Len(chan[sid]) + Cardinality(taken[sid])]]
                      ELSE recorded
    /\ unsubbing' = unsubbing \cup {[sid |-> sid, max |-> max, n |-> nOps + 1]}
    /\ UNCHANGED <<connVars, chan, stream, yielded, ioVars, cc, reconnect_handlers,
                   called, held, ppc, cpc, pubc, taken, replay, closing, svw, dpc, ensure_connect, sor, clientState,
                   server_info, ping_attempts, ticks, hpc, req, ret, rx, nIn, cleared,
                   outcomes>>

\* client.rs:418  unsubscribe: UNSUB handed to the client's sender.
UnsubscribeSend(u) ==
    /\ u \in unsubbing
    /\ sendq' = SenderSend(sendq, cur, UNSUB(u.sid, u.max))
    /\ ret' = [Call("unsubscribe", u.sid, 0, u.max, Result("Ok", 0)) EXCEPT !.n = u.n]
    /\ unsubbing' = unsubbing \ {u}
    /\ UNCHANGED <<connVars, subVars, written, control, ctlOpen, gen, cur, cc,
                   reconnect_handlers, called, held, ppc, cpc, pubc, taken, replay, closing, svw, dpc, ensure_connect, sor,
                   clientState, server_info, ping_attempts, ticks, hpc, req, rx, nIn,
                   nOps, cleared, recorded, outcomes>>

\* client.rs:424-436  subscribe: SUB goes to the sender at the call; the
\* registration is the continuation (.then) of that send.
SubscribeCall(sid) ==
    /\ nOps < MaxOps
    /\ stream[sid] = "none"
    /\ nOps' = nOps + 1
    /\ sendq' = SenderSend(sendq, cur, SUB(sid))
    /\ stream' = [stream EXCEPT ![sid] = "pending"]
    /\ ret' = Call("subscribe", sid, 0, None, Result("Ok", 0))
    /\ UNCHANGED <<connVars, subs_map, chan, yielded, written, control, ctlOpen,
                   gen, cur>>
    /\ UNCHANGED <<cc, reconnect_handlers, called, outcomes, held, ppc, cpc, pubc, unsubbing, taken, replay, closing, svw, dpc, ensure_connect, sor, clientState, server_info, ping_attempts, ticks, hpc, req,
                   rx, nIn, cleared, recorded>>

\* client.rs:57-72  for_sid: insert a fresh sink under cmd.sid
ForSid(sid) ==
    /\ subs_map' = Insert(subs_map, sid, NewSink)
    /\ chan' = [chan EXCEPT ![sid] = <<>>]

\* client.rs:436-437, 460  the continuation: for_sid, the stream is returned
SubscribeRegister(sid) ==
    /\ stream[sid] = "pending"
    /\ RegistryFree
    /\ ForSid(sid)
    /\ stream' = [stream EXCEPT ![sid] = "open"]
    /\ UNCHANGED <<connVars, yielded, ioVars, clientVars, outcomes>>

\* client.rs:437-458  the closure run on every message of the stream:
\* max-message accounting.
Deliver(sid, n) ==
    IF sid \in DOMAIN subs_map /\ IsSome(subs_map[sid].max_count)
       THEN LET max == Get(subs_map[sid].max_count)
                count == subs_map[sid].count + 1
            IN IF count >= max
                  THEN /\ subs_map' = Remove(subs_map, sid)
                       /\ yielded' = [yielded EXCEPT ![sid] = Append(@, Err(max))]
                  ELSE /\ subs_map' = [subs_map EXCEPT ![sid].count = count]
                       /\ yielded' = [yielded EXCEPT ![sid] = Append(@, Ok(n))]
       ELSE /\ yielded' = [yielded EXCEPT ![sid] = Append(@, Ok(n))]
            /\ UNCHANGED subs_map

\* One poll of the stream subscribe returned takes an item from the queue:
\* rx (client.rs:74), take_while CLOSE (75-81), filter_map (82-85).  An empty
\* queue whose sender is gone (the registry entry dropped) ends the stream;
\* an empty queue with a live sender is Pending (no step).
StreamPoll(sid) ==
    /\ stream[sid] = "open"
    /\ taken[sid] = None
    /\ IF chan[sid] = <<>>
          THEN /\ sid \notin DOMAIN subs_map
               /\ stream' = [stream EXCEPT ![sid] = "done"]
               /\ UNCHANGED <<chan, taken>>
       ELSE /\ chan' = [chan EXCEPT ![sid] = Tail(@)]
            /\ IF Head(chan[sid]).k = "CLOSE"
                  THEN /\ stream' = [stream EXCEPT ![sid] = "done"]
                       /\ UNCHANGED taken
                  ELSE /\ taken' = [taken EXCEPT ![sid] = Some(Head(chan[sid]))]
                       /\ UNCHANGED stream
    /\ UNCHANGED <<connVars, subs_map, yielded, ioVars, cc, reconnect_handlers, called,
                   held, ppc, cpc, pubc, unsubbing, replay, closing, svw, dpc, ensure_connect, sor, clientState,
                   server_info, ping_attempts, ticks, hpc, req, ret, rx, nIn, nOps,
                   cleared, recorded, outcomes>>

\* client.rs:437-458  the closure runs on the item taken, under the
\* registry's write lock, and the stream yields.
StreamDeliver(sid) ==
    /\ taken[sid] # None
    /\ RegistryFree
    /\ Deliver(sid, Get(taken[sid]).v)
    /\ taken' = [taken EXCEPT ![sid] = None]
    /\ UNCHANGED <<connVars, chan, stream, ioVars, cc, reconnect_handlers, called, held,
                   ppc, cpc, pubc, unsubbing, replay, closing, svw, dpc, ensure_connect, sor, clientState, server_info,
                   ping_attempts, ticks, hpc, req, ret, rx, nIn, nOps, cleared, recorded,
                   outcomes>>

\* The user drops the stream subscribe returned, open or ended: its receiver
\* goes, and with it what was queued; client.rs:35 and 217 then get an error
\* from unbounded_send, which they ignore.
StreamDrop(sid) ==
    /\ stream[sid] \in {"open", "done"}
    /\ stream' = [stream EXCEPT ![sid] = "dropped"]
    /\ chan' = [chan EXCEPT ![sid] = <<>>]
    /\ taken' = [taken EXCEPT ![sid] = None]
    /\ UNCHANGED <<connVars, subs_map, yielded, ioVars, cc, reconnect_handlers, called,
                   held, ppc, cpc, pubc, unsubbing, replay, closing, svw, dpc, ensure_connect, sor, clientState,
                   server_info, ping_attempts, ticks, hpc, req, ret, rx, nIn, nOps,
                   cleared, recorded, outcomes>>

(* ============================== request ================================ *)
\* client.rs:88-92  remove_sid
\* (RemoveSidKeeps: the entry is left in place.)
RemoveSidKeeps(sid) == UNCHANGED subs_map

RemoveSid(sid) == subs_map' = Remove(subs_map, sid)

\* client.rs:466-477  request: the payload check under server_info.read().
ReqCall(len) ==
    /\ nOps < MaxOps
    /\ req.pc = "none"
    /\ nOps' = nOps + 1
    /\ IF Overflows(len)
          THEN /\ ret' = Call("request", "", len, None,
                              Result("MaxPayloadOverflow", Get(server_info).max_payload))
               /\ UNCHANGED req
          ELSE /\ req' = [pc |-> "forsid", len |-> len]
               /\ UNCHANGED ret
    /\ UNCHANGED <<connVars, subVars, ioVars, cc, reconnect_handlers, called, held, ppc,
                   cpc, pubc, unsubbing, taken, replay, closing, svw, dpc, ensure_connect, sor, clientState, server_info,
                   ping_attempts, ticks, hpc, rx, nIn, cleared, recorded, outcomes>>

\* client.rs:502-505  request: the inbox sink (for_sid).
ReqForSid ==
    /\ req.pc = "forsid"
    /\ RegistryFree
    /\ ForSid(InboxSid)
    /\ req' = [req EXCEPT !.pc = "sub"]
    /\ UNCHANGED <<connVars, stream, yielded, ioVars, cc, reconnect_handlers, called,
                   held, ppc, cpc, pubc, unsubbing, taken, replay, closing, svw, dpc, ensure_connect, sor, clientState,
                   server_info, ping_attempts, ticks, hpc, ret, rx, nIn, nOps, cleared,
                   recorded, outcomes>>

\* client.rs:520-522  request: SUB(inbox) handed to the client's sender.
ReqSub ==
    /\ req.pc = "sub"
    /\ sendq' = SenderSend(sendq, cur, SUB(InboxSid))
    /\ req' = [req EXCEPT !.pc = "unsub"]
    /\ UNCHANGED <<connVars, subVars, written, control, ctlOpen, gen, cur, cc,
                   reconnect_handlers, called, held, ppc, cpc, pubc, unsubbing, taken,
                   replay, closing, svw, dpc, ensure_connect, sor, clientState, server_info, ping_attempts, ticks, hpc, ret,
                   rx, nIn, nOps, cleared, recorded, outcomes>>

\* client.rs:523  .then(UNSUB(inbox sid, max_msgs = 1))
ReqUnsub ==
    /\ req.pc = "unsub"
    /\ sendq' = SenderSend(sendq, cur, UNSUB(InboxSid, Some(1)))
    /\ req' = [req EXCEPT !.pc = "pub"]
    /\ UNCHANGED <<connVars, subVars, written, control, ctlOpen, gen, cur>>
    /\ UNCHANGED <<cc, reconnect_handlers, called, outcomes, held, ppc, cpc, pubc, unsubbing, taken, replay, closing, svw, dpc, ensure_connect, sor, clientState, server_info, ping_attempts, ticks, hpc, ret,
                   rx, nIn, nOps, cleared, recorded>>

\* client.rs:524  .then(PUB(subject, payload, reply_to = inbox))
ReqPub ==
    /\ req.pc = "pub"
    /\ sendq' = SenderSend(sendq, cur, Frame("PUB", InboxSid, req.len))
    /\ req' = [req EXCEPT !.pc = "await"]
    /\ UNCHANGED <<connVars, subVars, written, control, ctlOpen, gen, cur>>
    /\ UNCHANGED <<cc, reconnect_handlers, called, outcomes, held, ppc, cpc, pubc, unsubbing, taken, replay, closing, svw, dpc, ensure_connect, sor, clientState, server_info, ping_attempts, ticks, hpc, ret,
                   rx, nIn, nOps, cleared, recorded>>

\* client.rs:502-517  the inbox stream's first item is taken
\* (take(1).into_future()): the end of the stream is InnerBrokenChain, and
\* the future, complete, drops the stream: its receiver and what is queued
\* go.  A message goes on to its arm of the and_then closure.
ReqAwait ==
    /\ req.pc = "await"
    /\ IF chan[InboxSid] = <<>> \/ Head(chan[InboxSid]).k = "CLOSE"
          THEN /\ chan[InboxSid] = <<>> => InboxSid \notin DOMAIN subs_map
               /\ req' = [req EXCEPT !.pc = "done"]
               /\ ret' = [Call("request", "", req.len, None,
                               Result("InnerBrokenChain", 0)) EXCEPT !.n = nOps]
               /\ chan' = [chan EXCEPT ![InboxSid] = <<>>]
               /\ stream' = [stream EXCEPT ![InboxSid] = "dropped"]
               /\ UNCHANGED taken
          ELSE /\ chan' = [chan EXCEPT ![InboxSid] = Tail(@)]
               /\ req' = [req EXCEPT !.pc = "reply"]
               /\ taken' = [taken EXCEPT ![InboxSid] = Some(Head(chan[InboxSid]))]
               /\ UNCHANGED <<ret, stream>>
    /\ UNCHANGED <<connVars, subs_map, yielded, ioVars, cc, reconnect_handlers, called,
                   held, ppc, cpc, pubc, unsubbing, replay, closing, svw, dpc, ensure_connect, sor,
                   clientState, server_info, ping_attempts, ticks, hpc, rx, nIn, nOps,
                   cleared, recorded, outcomes>>

\* client.rs:511-514  the and_then closure: remove_sid under the registry's
\* write lock, and the message is returned; the closure drops the stream it
\* was handed: its receiver and what is queued go.
ReqReply ==
    /\ req.pc = "reply"
    /\ RegistryFree
    /\ RemoveSid(InboxSid)
    /\ ret' = [Call("request", "", req.len, None,
                    Result("Message", Get(taken[InboxSid]).v)) EXCEPT !.n = nOps]
    /\ taken' = [taken EXCEPT ![InboxSid] = None]
    /\ chan' = [chan EXCEPT ![InboxSid] = <<>>]
    /\ stream' = [stream EXCEPT ![InboxSid] = "dropped"]
    /\ req' = [req EXCEPT !.pc = "done"]
    /\ UNCHANGED <<connVars, yielded, ioVars, cc, reconnect_handlers, called, held, ppc,
                   cpc, pubc, unsubbing, replay, closing, svw, dpc, ensure_connect, sor, clientState,
                   server_info, ping_attempts, ticks, hpc, rx, nIn, nOps, cleared,
                   recorded, outcomes>>

(* ========================= reconnect handler =========================== *)
\* client.rs:213-214  the handler task takes a signal.
HStart ==
    /\ hpc = "idle"
    /\ signals > 0
    /\ signals' = signals - 1
    /\ clientState' = "Reconnecting"
    /\ hpc' = IF sor THEN "closectl" ELSE "close"
    /\ UNCHANGED <<connState, inner, alive, infoDue, reachable, reconnect_hosts,
                   trig, dial, timers>>
    /\ UNCHANGED <<subVars, ioVars>>
    /\ UNCHANGED <<cc, reconnect_handlers, called, outcomes, held, ppc, cpc, pubc, unsubbing, taken, replay, closing, svw, dpc, ensure_connect, sor, server_info, ping_attempts, ticks, req, ret, rx, nIn,
                   nOps, cleared, recorded>>

\* the sequences that list every element of S once (HashMap iteration order)
Orders(S) ==
    {p \in [1..Cardinality(S) -> S] : \A i, j \in 1..Cardinality(S) : p[i] = p[j] => i = j}

\* client.rs:216  recon_subs_map.read().iter(): the registry's read lock is
\* taken and the iteration over its entries starts.
HClose ==
    /\ hpc = "close"
    /\ \E order \in Orders(DOMAIN subs_map) : closing' = order
    /\ hpc' = "closing"
    /\ UNCHANGED <<connVars, subVars, ioVars, cc, reconnect_handlers, called, held, ppc,
                   cpc, pubc, unsubbing, taken, replay, svw, dpc, ensure_connect, sor,
                   clientState, server_info, ping_attempts, ticks, req, ret, rx, nIn,
                   nOps, cleared, recorded, outcomes>>

\* client.rs:217-219  the next entry: CLOSE to its sink; the send to a sink
\* whose receiver was dropped fails and queues nothing.  After the last
\* entry the read lock is released.
HCloseSend ==
    /\ hpc = "closing"
    /\ IF closing = <<>>
          THEN /\ hpc' = "clear"
               /\ UNCHANGED <<chan, closing>>
          ELSE /\ chan' = IF stream[Head(closing)] # "dropped"
                             THEN [chan EXCEPT ![Head(closing)] = Append(@, SinkClose)]
                             ELSE chan
               /\ closing' = Tail(closing)
               /\ UNCHANGED hpc
    /\ UNCHANGED <<connVars, subs_map, stream, yielded, ioVars, cc, reconnect_handlers,
                   called, held, ppc, cpc, pubc, unsubbing, taken, replay, svw, dpc,
                   ensure_connect, sor, clientState, server_info, ping_attempts, ticks,
                   req, ret, rx, nIn, nOps, cleared, recorded, outcomes>>

\* client.rs:220  under the write lock: clear the registry.
\* (HClearKeeps: the step without the clear.)
HClearKeeps ==
    /\ hpc = "clear"
    /\ cleared' = cleared \cup DOMAIN subs_map
    /\ hpc' = "closectl"
    /\ UNCHANGED <<connVars, subVars, ioVars>>
    /\ UNCHANGED <<cc, reconnect_handlers, called, outcomes, held, ppc, cpc, pubc, unsubbing, taken, replay, closing, svw, dpc, ensure_connect, sor, clientState, server_info, ping_attempts, ticks, req, ret,
                   rx, nIn, nOps, recorded>>

HClear ==
    /\ hpc = "clear"
    /\ subs_map' = EmptyMap
    /\ cleared' = cleared \cup DOMAIN subs_map
    /\ hpc' = "closectl"
    /\ UNCHANGED <<connVars, chan, stream, yielded, ioVars>>
    /\ UNCHANGED <<cc, reconnect_handlers, called, outcomes, held, ppc, cpc, pubc, unsubbing, taken, replay, closing, svw, dpc, ensure_connect, sor, clientState, server_info, ping_attempts, ticks, req, ret,
                   rx, nIn, nOps, recorded>>

\* client.rs:223  CLOSE to the control loop the client's control_tx points to.
HCloseCtl ==
    /\ hpc = "closectl"
    /\ control' = IF ctlOpen[cur]
                     THEN [control EXCEPT ![cur] = Append(@, CLOSE)]
                     ELSE control
    /\ hpc' = "reset"
    /\ UNCHANGED <<connVars, subVars, sendq, written, ctlOpen, gen, cur, cc,
                   reconnect_handlers, called, held, ppc, cpc, pubc, unsubbing, taken,
                   replay, closing, svw, dpc, ensure_connect, sor, clientState, server_info, ping_attempts, ticks, req, ret,
                   rx, nIn, nOps, cleared, recorded, outcomes>>

\* client.rs:224  the ping counter is reset.
HReset ==
    /\ hpc = "reset"
    /\ ping_attempts' = 0
    /\ hpc' = "rebuild"
    /\ UNCHANGED <<connVars, subVars, ioVars, cc, reconnect_handlers, called, held, ppc,
                   cpc, pubc, unsubbing, taken, replay, closing, svw, dpc, ensure_connect, sor, clientState, server_info,
                   ticks, req, ret, rx, nIn, nOps, cleared, recorded, outcomes>>

\* client.rs:225-238  a new sink/stream view on the same connection, a new
\* control channel, a new demultiplexer (spawned in NatsClientMultiplexer::
\* new), a new sender and the new control loop.
HRebuild ==
    /\ hpc = "rebuild"
    /\ gen' = gen + 1
    /\ hpc' = "bind"
    /\ UNCHANGED <<connVars, subVars, sendq, written, control, ctlOpen, cur, cc,
                   reconnect_handlers, called, held, ppc, cpc, pubc, unsubbing, taken,
                   replay, closing, svw, dpc, ensure_connect, sor, clientState, server_info, ping_attempts, ticks, req, ret,
                   rx, nIn, nOps, cleared, recorded, outcomes>>

\* client.rs:241-243  the client's sender, receiver and control_tx are
\* replaced.
HBind ==
    /\ hpc = "bind"
    /\ cur' = gen
    /\ hpc' = "state"
    /\ UNCHANGED <<connVars, subVars, sendq, written, control, ctlOpen, gen, cc,
                   reconnect_handlers, called, held, ppc, cpc, pubc, unsubbing, taken,
                   replay, closing, svw, dpc, ensure_connect, sor, clientState, server_info, ping_attempts, ticks, req, ret,
                   rx, nIn, nOps, cleared, recorded, outcomes>>

\* client.rs:244  the client state set Connected.
HState ==
    /\ hpc = "state"
    /\ clientState' = "Connected"
    /\ hpc' = "connect"
    /\ UNCHANGED <<connVars, subVars, ioVars, cc, reconnect_handlers, called, held, ppc,
                   cpc, pubc, unsubbing, taken, replay, closing, svw, dpc, ensure_connect, sor, server_info, ping_attempts,
                   ticks, req, ret, rx, nIn, nOps, cleared, recorded, outcomes>>

\* client.rs:246-248  NatsClient::connect(recon_opts).wait(): a second client
\* is connected to the configured endpoints; an error is logged and the
\* handler goes on.  The call returns after its one attempt without
\* ensure_connect (client.rs:130), and with it when an attempt connects
\* (121) or when an attempt has failed and the timer of the wait fails
\* (126-128, InnerBrokenChain); while attempts fail and the timer fires the
\* handler stays here.  Nothing of this client changes.
HConnect ==
    /\ hpc = "connect"
    /\ \/ ~ensure_connect
       \/ GetConnInner(init_hosts, reachable)
       \/ \E fired \in {FALSE} : ~fired /\ ~GetConnInner(init_hosts, reachable)
    /\ hpc' = IF sor THEN "replay" ELSE "hooks"
    /\ UNCHANGED <<connVars, subVars, ioVars, cc, reconnect_handlers, called, held, ppc,
                   cpc, pubc, unsubbing, taken, replay, closing, svw, dpc, ensure_connect, sor,
                   clientState, server_info, ping_attempts, ticks, req, ret, rx, nIn,
                   nOps, cleared, recorded, outcomes>>

\* client.rs:250-262  under the registry's read lock, SUB(sink.cmd) is handed
\* to the client's sender for every entry, one send after the other; this
\* step takes the lock and fixes the iteration order.
HReplay ==
    /\ hpc = "replay"
    /\ \E order \in Orders(DOMAIN subs_map) : replay' = order
    /\ hpc' = "replaying"
    /\ UNCHANGED <<connVars, subVars, ioVars, cc, reconnect_handlers, called, held, ppc,
                   cpc, pubc, unsubbing, taken, closing, svw, dpc, ensure_connect, sor,
                   clientState, server_info, ping_attempts, ticks, req, ret, rx, nIn,
                   nOps, cleared, recorded, outcomes>>

\* client.rs:253-255  the next entry's SUB; after the last one the read lock
\* is released.
HReplaySend ==
    /\ hpc = "replaying"
    /\ IF replay = <<>>
          THEN /\ hpc' = "hooks"
               /\ UNCHANGED <<sendq, replay>>
          ELSE /\ sendq' = SenderSend(sendq, cur, SUB(Head(replay)))
               /\ replay' = Tail(replay)
               /\ UNCHANGED hpc
    /\ UNCHANGED <<connVars, subVars, written, control, ctlOpen, gen, cur, cc,
                   reconnect_handlers, called, held, ppc, cpc, pubc, unsubbing, taken,
                   closing, svw, dpc, ensure_connect, sor, clientState, server_info,
                   ping_attempts, ticks, req, ret, rx, nIn, nOps, cleared, recorded,
                   outcomes>>

\* client.rs:96-102  add_reconnect_handler
AddReconnectHandler(h) ==
    /\ h \notin reconnect_handlers
    /\ reconnect_handlers' = reconnect_handlers \cup {h}
    /\ UNCHANGED <<connVars, subVars, ioVars>>
    /\ UNCHANGED <<cc, called, outcomes, held, ppc, cpc, pubc, unsubbing, taken, replay, closing, svw, dpc, ensure_connect, sor, clientState, server_info, ping_attempts, ticks,
                   hpc, req, ret, rx, nIn, nOps, cleared, recorded>>

\* client.rs:104-106  remove_reconnect_handler
RemoveReconnectHandler(h) ==
    /\ h \in reconnect_handlers
    /\ reconnect_handlers' = reconnect_handlers \ {h}
    /\ UNCHANGED <<connVars, subVars, ioVars>>
    /\ UNCHANGED <<cc, called, outcomes, held, ppc, cpc, pubc, unsubbing, taken, replay, closing, svw, dpc, ensure_connect, sor, clientState, server_info, ping_attempts, ticks,
                   hpc, req, ret, rx, nIn, nOps, cleared, recorded>>

\* client.rs:264-269  under the read lock, every registered handler is called
\* with a clone of the client.
HHooks ==
    /\ hpc = "hooks"
    /\ hpc' = "idle"
    /\ called' = [h \in Hids |->
                    IF h \in reconnect_handlers THEN called[h] + 1 ELSE called[h]]
    /\ UNCHANGED <<connVars, subVars, ioVars>>
    /\ UNCHANGED <<cc, reconnect_handlers, outcomes, held, ppc, cpc, pubc, unsubbing, taken, replay, closing, svw, dpc, ensure_connect, sor, clientState, server_info,
                   ping_attempts, ticks, req, ret, rx, nIn, nOps, cleared, recorded>>

(* ============================== connect ================================ *)
\* no connect call under way
NoConnect == [pc |-> "none", ensure |-> FALSE, uris |-> <<>>, tries |-> 0, res |-> ""]

\* client.rs:114-119  connect(opts): loop_fn enters its first pass with
\* opts.ensure_connect and opts.cluster_uris.
ConnectCall(ensure, uris) ==
    /\ cc.pc = "none"
    /\ cc' = [pc |-> "create", ensure |-> ensure, uris |-> uris, tries |-> 0,
              res |-> ""]
    /\ UNCHANGED <<connVars, subVars, ioVars>>
    /\ UNCHANGED <<reconnect_handlers, called, outcomes, held, ppc, cpc, pubc, unsubbing, taken, replay, closing, svw, dpc, ensure_connect, sor, clientState, server_info,
                   ping_attempts, ticks, hpc, req, ret, rx, nIn, nOps, cleared,
                   recorded>>

\* (ConnectAttemptFailFast: ensure_connect is not consulted.)
ConnectAttemptFailFast ==
    /\ cc.pc = "create"
    /\ cc.tries < MaxTries
    /\ IF GetConnInner(cc.uris, reachable)
          THEN cc' = [cc EXCEPT !.pc = "done", !.tries = @ + 1, !.res = "Ok"]
       ELSE cc' = [cc EXCEPT !.pc = "done", !.tries = @ + 1,
                             !.res = "NoRouteToHostError"]
    /\ UNCHANGED <<connVars, subVars, ioVars>>
    /\ UNCHANGED <<reconnect_handlers, called, outcomes, held, ppc, cpc, pubc, unsubbing, taken, replay, closing, svw, dpc, ensure_connect, sor, clientState, server_info,
                   ping_attempts, ticks, hpc, req, ret, rx, nIn, nOps, cleared,
                   recorded>>

\* client.rs:119-133, 145-147  create_client resolves: a connection was made
\* (Loop::Break(client)), or none was and the pass ends in the Delay
\* (ensure_connect) or in NoRouteToHostError.
ConnectAttempt ==
    /\ cc.pc = "create"
    /\ cc.tries < MaxTries
    /\ IF GetConnInner(cc.uris, reachable)
          THEN cc' = [cc EXCEPT !.pc = "done", !.tries = @ + 1, !.res = "Ok"]
       ELSE IF cc.ensure
          THEN cc' = [cc EXCEPT !.pc = "delay", !.tries = @ + 1]
       ELSE cc' = [cc EXCEPT !.pc = "done", !.tries = @ + 1,
                             !.res = "NoRouteToHostError"]
    /\ UNCHANGED <<connVars, subVars, ioVars>>
    /\ UNCHANGED <<reconnect_handlers, called, outcomes, held, ppc, cpc, pubc, unsubbing, taken, replay, closing, svw, dpc, ensure_connect, sor, clientState, server_info,
                   ping_attempts, ticks, hpc, req, ret, rx, nIn, nOps, cleared,
                   recorded>>

\* client.rs:123-128  the Delay resolves: reconnect_timeout has elapsed and
\* the loop goes on (Loop::Continue(opts)), or the timer fails and the call
\* ends with InnerBrokenChain (map_err).
ConnectDelay(fired) ==
    /\ cc.pc = "delay"
    /\ cc' = IF fired
                THEN [cc EXCEPT !.pc = "create"]
                ELSE [cc EXCEPT !.pc = "done", !.res = "InnerBrokenChain"]
    /\ UNCHANGED <<connVars, subVars, ioVars>>
    /\ UNCHANGED <<reconnect_handlers, called, outcomes, held, ppc, cpc, pubc, unsubbing, taken, replay, closing, svw, dpc, ensure_connect, sor, clientState, server_info,
                   ping_attempts, ticks, hpc, req, ret, rx, nIn, nOps, cleared,
                   recorded>>

(* ============================ specification ============================ *)
Gens == 0..MaxVersion

\* client.rs:138-183, connection.rs:148-156  the state create_client returns
Init ==
    /\ connState = <<"Connected", 0>>
    /\ inner = 0
    /\ alive = TRUE
    /\ infoDue = TRUE
    /\ reachable \in SUBSET Hosts
    /\ reconnect_hosts = init_hosts
    /\ trig = [t \in Triggerers |-> IdleTrig]
    /\ dial = [d \in DialIds |-> FreeDial]
    /\ timers = 0
    /\ signals = 0
    /\ sor \in BOOLEAN
    /\ clientState = "Connecting"
    /\ server_info = None
    /\ subs_map = EmptyMap
    /\ chan = [s \in AllSids |-> <<>>]
    /\ stream = [s \in AllSids |-> "none"]
    /\ yielded = [s \in AllSids |-> <<>>]
    /\ sendq = [g \in Gens |-> <<>>]
    /\ written = [t \in Gens |-> <<>>]
    /\ control = [g \in Gens |-> <<>>]
    /\ ctlOpen = [g \in Gens |-> TRUE]
    /\ gen = 0
    /\ cur = 0
    /\ ping_attempts = 0
    /\ ticks = 0
    /\ hpc = "idle"
    /\ req = [pc |-> "none", len |-> 0]
    /\ ret = NoCall
    /\ rx = [n |-> 0, g |-> 0, f |-> CLOSE]
    /\ nIn = 0
    /\ nOps = 0
    /\ cleared = {}
    /\ recorded = [s \in AllSids |-> [n |-> None, at |-> 0, queued |-> 0]]
    /\ cc = NoConnect
    /\ reconnect_handlers = {}
    /\ called = [h \in Hids |-> 0]
    /\ outcomes = {}
    /\ held = [g \in Gens |-> None]
    /\ ppc = "idle"
    /\ cpc = [g \in Gens |-> IdleLoop]
    /\ pubc = [pc |-> "none", len |-> 0, n |-> 0]
    /\ unsubbing = {}
    /\ taken = [s \in AllSids |-> None]
    /\ replay = <<>>
    /\ closing = <<>>
    /\ svw = [g \in Gens |-> IdleView]
    /\ dpc = [g \in Gens |-> "idle"]
    /\ ensure_connect \in BOOLEAN

ConnNext ==
    \/ \E t \in Triggerers : TrigRead(t)
    \/ \E t \in Triggerers : TrigDecide(t)
    \/ \E t \in Triggerers : TrigReconnect(t)
    \/ \E t \in Triggerers : TrigHosts(t)
    \/ \E t \in Triggerers : TrigSpawn(t)
    \/ \E d \in DialIds : DialResolve(d)
    \/ \E d \in DialIds : DialInstall(d)
    \/ \E d \in DialIds : DialOk(d)
    \/ \E d \in DialIds : DialSignal(d)
    \/ \E d \in DialIds : DialErr(d)
    \/ \E d \in DialIds : DialArm(d)
    \/ RetryFire
    \/ TransportDies
    \/ ReachChange

IoNext ==
    \/ \E g \in Gens, busy \in BOOLEAN : StartSend(g, busy)
    \/ \E g \in Gens, busy \in BOOLEAN : StartSendWrite(g, busy)
    \/ \E g \in Gens : PollFlush(g)
    \/ \E g \in Gens : FlushDisconnected(g)
    \/ \E g \in Gens : FlushReturn(g)
    \/ \E g \in Gens : DemuxDisconnected(g)
    \/ \E g \in Gens, f \in AllFrames : DemuxRead(g, f)
    \/ \E g \in Gens : PollNext(g)
    \/ \E g \in Gens : DemuxPending(g)
    \/ \E g \in Gens : DemuxRoute(g)
    \/ \E g \in Gens : ControlStep(g)
    \/ \E g \in Gens : InfoStore(g)
    \/ \E g \in Gens : InfoHosts(g)
    \/ \E g \in Gens : InfoGenerate(g)
    \/ \E g \in Gens : InfoConnect(g)
    \/ \E g \in Gens : InfoState(g)
    \/ \E g \in Gens : CtlPong(g)
    \/ PingTick
    \/ PingSend
    \/ PingInc
    \/ PingBreach

CallNext ==
    \/ \E len \in 0..MaxLen : Publish(len)
    \/ PublishSend
    \/ \E sid \in Sids, max \in MaxMsgs : Unsubscribe(sid, max)
    \/ \E u \in unsubbing : UnsubscribeSend(u)
    \/ \E sid \in Sids : SubscribeCall(sid)
    \/ \E sid \in Sids : SubscribeRegister(sid)
    \/ \E sid \in Sids : StreamPoll(sid)
    \/ \E sid \in Sids : StreamDeliver(sid)
    \/ \E len \in 0..MaxLen : ReqCall(len)
    \/ ReqForSid
    \/ ReqSub
    \/ ReqUnsub
    \/ ReqPub
    \/ ReqAwait
    \/ ReqReply
    \/ \E sid \in Sids : StreamDrop(sid)
    \/ \E h \in Hids : AddReconnectHandler(h)
    \/ \E h \in Hids : RemoveReconnectHandler(h)
    \/ \E ensure \in BOOLEAN, uris \in ClusterUris : ConnectCall(ensure, uris)
    \/ ConnectAttempt
    \/ \E fired \in BOOLEAN : ConnectDelay(fired)

HandlerNext ==
    \/ HStart
    \/ HClose
    \/ HCloseSend
    \/ HClear
    \/ HCloseCtl
    \/ HReset
    \/ HRebuild
    \/ HBind
    \/ HState
    \/ HConnect
    \/ HReplay
    \/ HReplaySend
    \/ HHooks

Next == ConnNext \/ IoNext \/ CallNext \/ HandlerNext

Spec == Init /\ [][Next]_vars

(* ------------------------------ scenarios ------------------------------ *)
(* The whole engine interleaves more tasks than can be enumerated at once.  *)
(* Each scenario runs the tasks that touch the state its properties read;   *)
(* the tasks left out share no variable with that state.                    *)

\* The reconnect protocol of NatsConnection: the stream view, the sink view
\* and the retry call trigger_reconnect while endpoints come and go.
InitConn == Init /\ sor = TRUE /\ ensure_connect = FALSE
NextConn ==
    \/ ConnNext
    \/ \E g \in Gens : PollFlush(g)
    \/ \E g \in Gens : FlushDisconnected(g)
    \/ \E g \in Gens : FlushReturn(g)
    \/ \E g \in Gens : PollNext(g)
    \/ \E g \in Gens : DemuxDisconnected(g)
    \/ \E g \in Gens : DemuxPending(g)
SpecConn == InitConn /\ [][NextConn]_vars

\* The liveness pinger: the handshake makes the client Connected, the pinger
\* ticks, a breach calls trigger_reconnect and the dial succeeds.
NextPing ==
    \/ PingTick
    \/ PingSend
    \/ PingInc
    \/ PingBreach
    \/ \E g \in Gens, mp \in InfoMaxPayloads : DemuxRead(g, INFO(mp, <<>>))
    \/ \E g \in Gens : PollNext(g)
    \/ \E g \in Gens : DemuxPending(g)
    \/ \E g \in Gens : DemuxRoute(g)
    \/ \E g \in Gens : ControlStep(g)
    \/ \E g \in Gens : InfoStore(g)
    \/ \E g \in Gens : InfoHosts(g)
    \/ \E g \in Gens : InfoGenerate(g)
    \/ \E g \in Gens : InfoConnect(g)
    \/ \E g \in Gens : InfoState(g)
    \/ \E t \in Triggerers : TrigRead(t)
    \/ \E t \in Triggerers : TrigDecide(t)
    \/ \E t \in Triggerers : TrigReconnect(t)
    \/ \E t \in Triggerers : TrigHosts(t)
    \/ \E t \in Triggerers : TrigSpawn(t)
    \/ \E d \in DialIds : DialResolve(d)
    \/ \E d \in DialIds : DialInstall(d)
    \/ \E d \in DialIds : DialOk(d)
    \/ \E d \in DialIds : DialSignal(d)
InitPing == Init /\ sor = TRUE /\ reachable = Hosts /\ ensure_connect = FALSE
SpecPing == InitPing /\ [][NextPing]_vars

\* Publish and request against the payload limit, with the sender running.
InitPub == Init /\ sor = TRUE /\ reachable = Hosts /\ ensure_connect = FALSE
NextPub ==
    \/ \E g \in Gens, mp \in InfoMaxPayloads : nIn < PubIn /\ DemuxRead(g, INFO(mp, <<>>))
    \/ \E g \in Gens : PollNext(g)
    \/ \E g \in Gens : DemuxPending(g)
    \/ \E g \in Gens : DemuxRoute(g)
    \/ \E g \in Gens : ControlStep(g)
    \/ \E g \in Gens : InfoStore(g)
    \/ \E g \in Gens : InfoHosts(g)
    \/ \E g \in Gens : InfoGenerate(g)
    \/ \E g \in Gens : InfoConnect(g)
    \/ \E g \in Gens : InfoState(g)
    \/ \E g \in Gens, busy \in BOOLEAN : StartSend(g, busy)
    \/ \E g \in Gens, busy \in BOOLEAN : StartSendWrite(g, busy)
    \/ \E len \in 0..MaxLen : Publish(len)
    \/ PublishSend
    \/ \E len \in 0..MaxLen : ReqCall(len)
    \/ ReqForSid
    \/ ReqSub
    \/ ReqUnsub
    \/ ReqPub
SpecPub == InitPub /\ [][NextPub]_vars

\* Subscriptions: the registry, the demultiplexer and the user's streams.
InitSub == Init /\ sor = TRUE /\ reachable = Hosts /\ ensure_connect = FALSE
SubFrames ==
    {MSG(sid, n) : sid \in Sids, n \in 1..MaxIn} \cup {PING}
    \cup {INFO(mp, <<>>) : mp \in InfoMaxPayloads}
NextSub ==
    \/ \E g \in Gens, f \in SubFrames : nIn < SubIn /\ DemuxRead(g, f)
    \/ \E g \in Gens : PollNext(g)
    \/ \E g \in Gens : DemuxPending(g)
    \/ \E g \in Gens : DemuxRoute(g)
    \/ \E sid \in Sids, max \in MaxMsgs : Unsubscribe(sid, max)
    \/ \E u \in unsubbing : UnsubscribeSend(u)
    \/ \E sid \in Sids : SubscribeCall(sid)
    \/ \E sid \in Sids : SubscribeRegister(sid)
    \/ \E sid \in Sids : StreamPoll(sid)
    \/ \E sid \in Sids : StreamDeliver(sid)
SpecSub == InitSub /\ [][NextSub]_vars

\* A transport failure, the reconnect and the reconnect handler, with
\* subscriptions live and their streams polled.
\* subscribe_on_reconnect = false: the handler closes the sinks and clears
\* the registry.
InitRecon == Init /\ sor = FALSE /\ reachable = Hosts /\ ensure_connect = FALSE
ReconFrames ==
    {MSG(sid, n) : sid \in Sids, n \in 1..MaxIn}
    \cup {INFO(mp, <<>>) : mp \in InfoMaxPayloads}
NextRecon ==
    \/ TransportDies
    \/ \E g \in Gens : DemuxDisconnected(g)
    \/ \E t \in Triggerers : TrigRead(t)
    \/ \E t \in Triggerers : TrigDecide(t)
    \/ \E t \in Triggerers : TrigReconnect(t)
    \/ \E t \in Triggerers : TrigHosts(t)
    \/ \E t \in Triggerers : TrigSpawn(t)
    \/ \E d \in DialIds : DialResolve(d)
    \/ \E d \in DialIds : DialInstall(d)
    \/ \E d \in DialIds : DialOk(d)
    \/ \E d \in DialIds : DialSignal(d)
    \/ HStart
    \/ HClose
    \/ HCloseSend
    \/ HClear
    \/ HCloseCtl
    \/ HReset
    \/ HRebuild
    \/ HBind
    \/ HState
    \/ HConnect
    \/ HHooks
    \/ \E g \in Gens, f \in ReconFrames : nIn < ReconIn /\ DemuxRead(g, f)
    \/ \E g \in Gens : PollNext(g)
    \/ \E g \in Gens : DemuxPending(g)
    \/ \E g \in Gens : DemuxRoute(g)
    \/ \E sid \in Sids : SubscribeCall(sid)
    \/ \E sid \in Sids : SubscribeRegister(sid)
    \/ \E sid \in Sids : StreamPoll(sid)
    \/ \E sid \in Sids : StreamDeliver(sid)
SpecRecon == InitRecon /\ [][NextRecon]_vars

\* subscribe_on_reconnect = true: the handler replays the registry through the
\* new sender, and the sender tasks write what is queued.  Subscriptions are
\* made on the first transport, so that a SUB queued for a later sender is a
\* replayed one; the server sends nothing.
InitResub == Init /\ sor = TRUE /\ reachable = Hosts /\ ensure_connect = FALSE
NextResub ==
    \/ TransportDies
    \/ \E g \in Gens : DemuxDisconnected(g)
    \/ \E t \in Triggerers : TrigRead(t)
    \/ \E t \in Triggerers : TrigDecide(t)
    \/ \E t \in Triggerers : TrigReconnect(t)
    \/ \E t \in Triggerers : TrigHosts(t)
    \/ \E t \in Triggerers : TrigSpawn(t)
    \/ \E d \in DialIds : DialResolve(d)
    \/ \E d \in DialIds : DialInstall(d)
    \/ \E d \in DialIds : DialOk(d)
    \/ \E d \in DialIds : DialSignal(d)
    \/ HStart
    \/ HCloseCtl
    \/ HReset
    \/ HRebuild
    \/ HBind
    \/ HState
    \/ HConnect
    \/ HReplay
    \/ HReplaySend
    \/ HHooks
    \/ \E g \in Gens : PollNext(g)
    \/ \E g \in Gens : DemuxPending(g)
    \/ \E sid \in Sids : cur = 0 /\ SubscribeCall(sid)
    \/ \E sid \in Sids : SubscribeRegister(sid)
    \/ \E g \in Gens, busy \in BOOLEAN : StartSend(g, busy)
    \/ \E g \in Gens, busy \in BOOLEAN : StartSendWrite(g, busy)
SpecResub == InitResub /\ [][NextResub]_vars

\* One request, its reply, and a reconnect that closes the sinks
\* (subscribe_on_reconnect = false).
InitReq == Init /\ sor = FALSE /\ reachable = Hosts /\ ensure_connect = FALSE
ReqFrames ==
    {MSG(InboxSid, n) : n \in 1..MaxIn} \cup {INFO(mp, <<>>) : mp \in InfoMaxPayloads}
NextReq ==
    \/ \E len \in 0..MaxLen : ReqCall(len)
    \/ ReqForSid
    \/ ReqSub
    \/ ReqUnsub
    \/ ReqPub
    \/ ReqAwait
    \/ ReqReply
    \/ \E g \in Gens, f \in ReqFrames : nIn < ReqIn /\ DemuxRead(g, f)
    \/ \E g \in Gens : PollNext(g)
    \/ \E g \in Gens : DemuxPending(g)
    \/ \E g \in Gens : DemuxRoute(g)
    \/ TransportDies
    \/ \E g \in Gens : DemuxDisconnected(g)
    \/ \E t \in Triggerers : TrigRead(t)
    \/ \E t \in Triggerers : TrigDecide(t)
    \/ \E t \in Triggerers : TrigReconnect(t)
    \/ \E t \in Triggerers : TrigHosts(t)
    \/ \E t \in Triggerers : TrigSpawn(t)
    \/ \E d \in DialIds : DialResolve(d)
    \/ \E d \in DialIds : DialInstall(d)
    \/ \E d \in DialIds : DialOk(d)
    \/ \E d \in DialIds : DialSignal(d)
    \/ HStart
    \/ HClose
    \/ HCloseSend
    \/ HClear
    \/ HCloseCtl
    \/ HReset
    \/ HRebuild
    \/ HBind
    \/ HState
    \/ HConnect
    \/ HHooks
SpecReq == InitReq /\ [][NextReq]_vars

\* The liveness pinger against the control loop and the reconnect handler
\* (subscribe_on_reconnect = true, nothing subscribed).
InitLive == Init /\ sor = TRUE /\ reachable = Hosts /\ ensure_connect = FALSE
LiveFrames == {PING, PONG} \cup {INFO(mp, <<>>) : mp \in InfoMaxPayloads}
NextLive ==
    \/ TransportDies
    \/ \E g \in Gens : DemuxDisconnected(g)
    \/ \E t \in Triggerers : TrigRead(t)
    \/ \E t \in Triggerers : TrigDecide(t)
    \/ \E t \in Triggerers : TrigReconnect(t)
    \/ \E t \in Triggerers : TrigHosts(t)
    \/ \E t \in Triggerers : TrigSpawn(t)
    \/ \E d \in DialIds : DialResolve(d)
    \/ \E d \in DialIds : DialInstall(d)
    \/ \E d \in DialIds : DialOk(d)
    \/ \E d \in DialIds : DialSignal(d)
    \/ HStart
    \/ HCloseCtl
    \/ HReset
    \/ HRebuild
    \/ HBind
    \/ HState
    \/ HConnect
    \/ HReplay
    \/ HReplaySend
    \/ HHooks
    \/ \E g \in Gens, f \in LiveFrames : nIn < LiveIn /\ DemuxRead(g, f)
    \/ \E g \in Gens : PollNext(g)
    \/ \E g \in Gens : DemuxPending(g)
    \/ \E g \in Gens : DemuxRoute(g)
    \/ \E g \in Gens : ControlStep(g)
    \/ \E g \in Gens : InfoStore(g)
    \/ \E g \in Gens : InfoHosts(g)
    \/ \E g \in Gens : InfoGenerate(g)
    \/ \E g \in Gens : InfoConnect(g)
    \/ \E g \in Gens : InfoState(g)
    \/ \E g \in Gens : CtlPong(g)
    \/ PingTick
    \/ PingSend
    \/ PingInc
    \/ PingBreach
SpecLive == InitLive /\ [][NextLive]_vars

\* The sink and stream views over a transport that fails and is replaced.
InitSink == Init /\ sor = TRUE /\ reachable = Hosts /\ ensure_connect = FALSE
NextSink ==
    \/ \E len \in 0..MaxLen : Publish(len)
    \/ PublishSend
    \/ \E g \in Gens, busy \in BOOLEAN : StartSend(g, busy)
    \/ \E g \in Gens, busy \in BOOLEAN : StartSendWrite(g, busy)
    \/ \E g \in Gens : PollFlush(g)
    \/ \E g \in Gens : FlushDisconnected(g)
    \/ \E g \in Gens : FlushReturn(g)
    \/ \E g \in Gens : PollNext(g)
    \/ \E g \in Gens : DemuxDisconnected(g)
    \/ \E g \in Gens : DemuxPending(g)
    \/ TransportDies
    \/ \E t \in Triggerers : TrigRead(t)
    \/ \E t \in Triggerers : TrigDecide(t)
    \/ \E t \in Triggerers : TrigReconnect(t)
    \/ \E t \in Triggerers : TrigHosts(t)
    \/ \E t \in Triggerers : TrigSpawn(t)
    \/ \E d \in DialIds : DialResolve(d)
    \/ \E d \in DialIds : DialInstall(d)
    \/ \E d \in DialIds : DialOk(d)
    \/ \E d \in DialIds : DialSignal(d)
SpecSink == InitSink /\ [][NextSink]_vars

\* NatsClient::connect against endpoints that come and go.
NextConnect ==
    \/ \E ensure \in BOOLEAN, uris \in ClusterUris : ConnectCall(ensure, uris)
    \/ ConnectAttempt
    \/ \E fired \in BOOLEAN : ConnectDelay(fired)
    \/ ReachChange
SpecConnect == Init /\ [][NextConnect]_vars

\* A reconnect with its handler, the handshake on the new transport and the
\* user's reconnect hooks.
InitHooks == Init /\ sor = TRUE /\ reachable = Hosts /\ ensure_connect = FALSE
NextHooks ==
    \/ \E h \in Hids : AddReconnectHandler(h)
    \/ \E h \in Hids : RemoveReconnectHandler(h)
    \/ TransportDies
    \/ \E g \in Gens : DemuxDisconnected(g)
    \/ \E t \in Triggerers : TrigRead(t)
    \/ \E t \in Triggerers : TrigDecide(t)
    \/ \E t \in Triggerers : TrigReconnect(t)
    \/ \E t \in Triggerers : TrigHosts(t)
    \/ \E t \in Triggerers : TrigSpawn(t)
    \/ \E d \in DialIds : DialResolve(d)
    \/ \E d \in DialIds : DialInstall(d)
    \/ \E d \in DialIds : DialOk(d)
    \/ \E d \in DialIds : DialSignal(d)
    \/ HStart
    \/ HCloseCtl
    \/ HReset
    \/ HRebuild
    \/ HBind
    \/ HState
    \/ HConnect
    \/ HReplay
    \/ HReplaySend
    \/ HHooks
    \/ \E g \in Gens, mp \in InfoMaxPayloads : DemuxRead(g, INFO(mp, <<>>))
    \/ \E g \in Gens : PollNext(g)
    \/ \E g \in Gens : DemuxPending(g)
    \/ \E g \in Gens : DemuxRoute(g)
    \/ \E g \in Gens : ControlStep(g)
    \/ \E g \in Gens : InfoStore(g)
    \/ \E g \in Gens : InfoHosts(g)
    \/ \E g \in Gens : InfoGenerate(g)
    \/ \E g \in Gens : InfoConnect(g)
    \/ \E g \in Gens : InfoState(g)
SpecHooks == InitHooks /\ [][NextHooks]_vars

\* Subscriptions whose streams the user drops.
NextDrop ==
    \/ \E g \in Gens, f \in SubFrames : DemuxRead(g, f)
    \/ \E g \in Gens : PollNext(g)
    \/ \E g \in Gens : DemuxPending(g)
    \/ \E g \in Gens : DemuxRoute(g)
    \/ \E sid \in Sids : SubscribeCall(sid)
    \/ \E sid \in Sids : SubscribeRegister(sid)
    \/ \E sid \in Sids : StreamPoll(sid)
    \/ \E sid \in Sids : StreamDeliver(sid)
    \/ \E sid \in Sids : StreamDrop(sid)
SpecDrop == InitSub /\ [][NextDrop]_vars

\* Reconnect attempts that fail and are retried, while endpoints that were
\* unreachable become reachable and stay so.
InitRetry == Init /\ sor = TRUE /\ ensure_connect = FALSE
NextRetry ==
    \/ \E g \in Gens, mp \in InfoMaxPayloads, u \in ConnectUrls : DemuxRead(g, INFO(mp, u))
    \/ \E g \in Gens : PollNext(g)
    \/ \E g \in Gens : DemuxPending(g)
    \/ \E g \in Gens : DemuxRoute(g)
    \/ \E g \in Gens : ControlStep(g)
    \/ \E g \in Gens : InfoStore(g)
    \/ \E g \in Gens : InfoHosts(g)
    \/ \E g \in Gens : InfoGenerate(g)
    \/ \E g \in Gens : InfoConnect(g)
    \/ \E g \in Gens : InfoState(g)
    \/ TransportDies
    \/ ReachGain
    \/ \E g \in Gens : DemuxDisconnected(g)
    \/ \E t \in Triggerers : TrigRead(t)
    \/ \E t \in Triggerers : TrigDecide(t)
    \/ \E t \in Triggerers : TrigReconnect(t)
    \/ \E t \in Triggerers : TrigHosts(t)
    \/ \E t \in Triggerers : TrigSpawn(t)
    \/ \E d \in DialIds : DialResolve(d)
    \/ \E d \in DialIds : DialInstall(d)
    \/ \E d \in DialIds : DialOk(d)
    \/ \E d \in DialIds : DialSignal(d)
    \/ \E d \in DialIds : DialErr(d)
    \/ \E d \in DialIds : DialArm(d)
    \/ RetryFire
SpecRetry == InitRetry /\ [][NextRetry]_vars
\* Every task of the connection that can run does run: the trigger's callers,
\* the dial task and the retry timer.
FairRetry ==
    /\ SpecRetry
    /\ \A t \in Triggerers :
           /\ WF_vars(TrigRead(t)) /\ WF_vars(TrigDecide(t))
           /\ WF_vars(TrigReconnect(t)) /\ WF_vars(TrigHosts(t))
           /\ WF_vars(TrigSpawn(t))
    /\ \A d \in DialIds :
           /\ WF_vars(DialResolve(d)) /\ WF_vars(DialInstall(d)) /\ WF_vars(DialOk(d))
           /\ WF_vars(DialSignal(d)) /\ WF_vars(DialErr(d)) /\ WF_vars(DialArm(d))
    /\ WF_vars(RetryFire)

\* The handshake across a reconnect: the control loop of the old transport
\* and the one the reconnect handler starts both handle INFO.  The
\* configured endpoint may be unreachable while a learned one is reachable,
\* under both values of ensure_connect.
InitInfo == Init /\ sor = TRUE /\ reachable \in {Hosts, {"b"}}
NextInfo ==
    \/ \E g \in Gens, mp \in InfoMaxPayloads, u \in ConnectUrls :
           nIn < InfoIn /\ DemuxRead(g, INFO(mp, u))
    \/ \E g \in Gens : PollNext(g)
    \/ \E g \in Gens : DemuxPending(g)
    \/ \E g \in Gens : DemuxRoute(g)
    \/ \E g \in Gens : ControlStep(g)
    \/ \E g \in Gens : InfoStore(g)
    \/ \E g \in Gens : InfoHosts(g)
    \/ \E g \in Gens : InfoGenerate(g)
    \/ \E g \in Gens : InfoConnect(g)
    \/ \E g \in Gens : InfoState(g)
    \/ TransportDies
    \/ \E g \in Gens : DemuxDisconnected(g)
    \/ \E t \in Triggerers : TrigRead(t)
    \/ \E t \in Triggerers : TrigDecide(t)
    \/ \E t \in Triggerers : TrigReconnect(t)
    \/ \E t \in Triggerers : TrigHosts(t)
    \/ \E t \in Triggerers : TrigSpawn(t)
    \/ \E d \in DialIds : DialResolve(d)
    \/ \E d \in DialIds : DialInstall(d)
    \/ \E d \in DialIds : DialOk(d)
    \/ \E d \in DialIds : DialSignal(d)
    \/ \E d \in DialIds : DialErr(d)
    \/ \E d \in DialIds : DialArm(d)
    \/ RetryFire
    \/ HStart
    \/ HCloseCtl
    \/ HReset
    \/ HRebuild
    \/ HBind
    \/ HState
    \/ HConnect
    \/ HReplay
    \/ HReplaySend
    \/ HHooks
SpecInfo == InitInfo /\ [][NextInfo]_vars

\* Subscribe with the sender task running: the SUB frame reaches the
\* transport while the call's continuation has or has not yet registered.
\* The server sends a MSG only for a sid whose SUB it has received.
NextSubSend ==
    \/ \E g \in Gens, f \in SubFrames :
           /\ f.op = "MSG" =>
                  \E i \in 1..Len(written[inner]) : written[inner][i] = SUB(f.sid)
           /\ DemuxRead(g, f)
    \/ \E g \in Gens : PollNext(g)
    \/ \E g \in Gens : DemuxPending(g)
    \/ \E g \in Gens : DemuxRoute(g)
    \/ \E g \in Gens, busy \in BOOLEAN : StartSend(g, busy)
    \/ \E g \in Gens, busy \in BOOLEAN : StartSendWrite(g, busy)
    \/ \E sid \in Sids : SubscribeCall(sid)
    \/ \E sid \in Sids : SubscribeRegister(sid)
    \/ \E sid \in Sids : StreamPoll(sid)
    \/ \E sid \in Sids : StreamDeliver(sid)
SpecSubSend == InitSub /\ [][NextSubSend]_vars

\* Message order of one subscription across a reconnect
\* (subscribe_on_reconnect = true): every
\* demultiplexer task ever started reads under the inner lock and routes
\* after releasing it.
InitOrder == Init /\ sor = TRUE /\ reachable = Hosts /\ ensure_connect = FALSE
OrderSid == "s1"
OrderFrames ==
    {MSG(OrderSid, n) : n \in 1..MaxIn}
    \cup {INFO(mp, <<>>) : mp \in InfoMaxPayloads}
NextOrder ==
    \/ SubscribeCall(OrderSid)
    \/ SubscribeRegister(OrderSid)
    \/ StreamPoll(OrderSid)
    \/ StreamDeliver(OrderSid)
    \/ \E g \in Gens, f \in OrderFrames : DemuxRead(g, f)
    \/ \E g \in Gens : PollNext(g)
    \/ \E g \in Gens : DemuxPending(g)
    \/ \E g \in Gens : DemuxRoute(g)
    \/ TransportDies
    \/ \E g \in Gens : DemuxDisconnected(g)
    \/ \E t \in Triggerers : TrigRead(t)
    \/ \E t \in Triggerers : TrigDecide(t)
    \/ \E t \in Triggerers : TrigReconnect(t)
    \/ \E t \in Triggerers : TrigHosts(t)
    \/ \E t \in Triggerers : TrigSpawn(t)
    \/ \E d \in DialIds : DialResolve(d)
    \/ \E d \in DialIds : DialInstall(d)
    \/ \E d \in DialIds : DialOk(d)
    \/ \E d \in DialIds : DialSignal(d)
    \/ HStart
    \/ HCloseCtl
    \/ HReset
    \/ HRebuild
    \/ HBind
    \/ HState
    \/ HConnect
    \/ HReplay
    \/ HReplaySend
    \/ HHooks
SpecOrder == InitOrder /\ [][NextOrder]_vars

(* =============================== properties ============================= *)

\* C1: at most one reconnect attempt owns the Reconnecting phase.  Whatever
\* the interleaving of trigger_reconnect calls, at most one caller holds the
\* phase or one dial task is in flight, no dial task is started while an
\* earlier one has not completed, and the phase is Reconnecting exactly
\* while an attempt is between its Reconnecting write and its outcome.
C1_AtMostOneReconnect ==
    /\ Cardinality(InFlight) + Cardinality(Spawning) <= 1
    /\ (InFlight # {} \/ Spawning # {}) <=> (phase = "Reconnecting")

\* C1 witness: a dial is in flight while another caller, which passed the
\* decision before that dial started, is about to run reconnect().
C1_Witness ==
    /\ InFlight # {}
    /\ \E t \in Triggerers : trig[t].pc = "reconnect"

\* C2: the version never decreases; it changes only in the step that
\* completes a successful dial; and that step leaves it strictly greater
\* than it was when the reconnect started.
C2_VersionIncrease ==
    [][/\ version' >= version
       /\ (version' # version =>
              \E d \in DialIds : /\ dial[d].pc = "installed"
                                 /\ dial'[d].pc = "signal")
       /\ \A d \in DialIds :
              (dial[d].pc = "installed" /\ dial'[d].pc = "signal")
                  => version' > dial[d].sv]_vars

\* C2 witness: a reconnect has completed successfully.
C2_Witness ==
    /\ version > 0
    /\ phase = "Connected"
    /\ signals > 0

\* C3 (as claimed): on every transport the first frame written is CONNECT.
C3_FirstFrameConnect ==
    \A t \in Gens : written[t] # <<>> => written[t][1].op = "CONNECT"

\* C4: the payload check of publish and request, with server_info known and
\* a payload longer than max_payload, returns MaxPayloadOverflow(max_payload),
\* hands nothing to the sender, writes nothing and leaves the registry as it
\* was; it refuses no other payload; a publish that passed the check hands
\* the sender exactly one PUB of that payload and returns Ok; request goes on
\* exactly when its payload does not overflow.
C4_PayloadCheck ==
    [][LET known == IsSome(server_info)
           over(len) == known /\ len > Get(server_info).max_payload
       IN /\ (ret'.n # ret.n /\ nOps' # nOps /\ ret'.op \in {"publish", "request"}) =>
                 /\ over(ret'.len)
                 /\ ret'.res = Result("MaxPayloadOverflow",
                                      Get(server_info).max_payload)
                 /\ sendq' = sendq
                 /\ written' = written
                 /\ subs_map' = subs_map
          /\ (pubc.pc = "none" /\ pubc'.pc = "send") => ~over(pubc'.len)
          /\ (pubc.pc = "send" /\ pubc'.pc = "none") =>
                 /\ ret'.op = "publish"
                 /\ ret'.res = Result("Ok", 0)
                 /\ sendq' = [sendq EXCEPT ![cur] = Append(@, PUB(pubc.len))]
          /\ (req.pc = "none" /\ req'.pc # "none") => ~over(req'.len)]_vars

\* C4 witness: with the limit known, a publish was refused, another publish
\* has passed the check and is about to hand over its PUB, and a request is
\* under way.
C4_Witness ==
    /\ IsSome(server_info)
    /\ ret.op = "publish"
    /\ ret.res.k = "MaxPayloadOverflow"
    /\ ret.len > Get(server_info).max_payload
    /\ pubc.pc = "send"
    /\ req.pc # "none"

\* C5 (as claimed): once unsubscribe has recorded max_count = n, the stream
\* yields at most n messages after that, SubscriptionReachedMaxMsgs(n) is its
\* last element, and the registry entry is gone when it is yielded.
C5_MaxCountTerminal ==
    \A s \in Sids :
        IsSome(recorded[s].n) =>
            LET n == Get(recorded[s].n)
                y == yielded[s]
            IN /\ Cardinality({i \in (recorded[s].at + 1)..Len(y) : y[i].k = "Ok"}) <= n
               /\ \A i \in 1..Len(y) :
                      y[i].k = "SubscriptionReachedMaxMsgs" =>
                          /\ i = Len(y)
                          /\ y[i].v = n
                          /\ s \notin DOMAIN subs_map

\* C6 (as claimed): unsubscribe(sid, max_msgs = n) called before any message
\* of the sid was queued or yielded: when the stream yields the error, it has
\* yielded exactly n messages before it, and the error carries n.
C6_ExactlyFirstN ==
    \A s \in Sids :
        (/\ IsSome(recorded[s].n)
         /\ recorded[s].at = 0
         /\ recorded[s].queued = 0
         /\ \E i \in 1..Len(yielded[s]) : yielded[s][i].k = "SubscriptionReachedMaxMsgs")
        => LET n == Get(recorded[s].n)
               y == yielded[s]
           IN /\ Len(y) >= n + 1
              /\ \A i \in 1..n : y[i].k = "Ok"
              /\ y[n + 1] = Err(n)

\* C7: for every frame a demultiplexer handles: a MSG goes to the sink
\* registered under its sid and to nothing else (to nothing at all when the
\* sid has no entry), the control channels untouched; any other frame goes
\* to that demultiplexer's control channel and to no sink.
C7_Routing ==
    [][rx'.n # rx.n =>
          LET f == rx'.f
              g == rx'.g
          IN IF f.op = "MSG"
                THEN /\ control' = control
                     /\ \A s \in AllSids :
                            chan'[s] = IF /\ s = f.sid
                                          /\ s \in DOMAIN subs_map
                                          /\ stream[s] # "dropped"
                                          THEN Append(chan[s], Message(f.v))
                                          ELSE chan[s]
                ELSE /\ chan' = chan
                     /\ ctlOpen[g] => control'[g] = Append(control[g], f)
                     /\ \A h \in Gens \ {g} : control'[h] = control[h]]_vars

\* C7 witness: a MSG for a sid nobody subscribed was handled while another
\* sid had a sink, and non-MSG frames had reached the control channel.
C7_Witness ==
    /\ rx.n > 0
    /\ rx.f.op = "MSG"
    /\ stream[rx.f.sid] = "none"
    /\ chan[rx.f.sid] = <<>>
    /\ subs_map # EmptyMap
    /\ control[rx.g] # <<>>

\* C8 (as claimed): with subscribe_on_reconnect = true, neither the step that
\* completes a reconnect nor any step of the reconnect handler changes the
\* set of registered sids; the replay hands the new sender one SUB for every
\* registry entry; and every such SUB is written on the new transport: as
\* long as that transport is up, the sink takes the SUB from the sender into
\* its start_send and start_send writes it.  (The second half is stated for
\* a start_send that does not overlap a poll of its own generation's
\* stream.)
C8_ResubscribeOnNewTransport ==
    [][sor =>
          /\ (version' # version \/ hpc' # hpc \/ replay' # replay) =>
                 DOMAIN subs_map' = DOMAIN subs_map
          /\ (hpc = "replay" /\ hpc' # hpc) =>
                 /\ cur = gen
                 /\ cur > 0
                 /\ replay' \in Orders(DOMAIN subs_map)
          /\ (hpc = "replaying" /\ replay # <<>> /\ replay' # replay) =>
                 sendq' = [sendq EXCEPT ![cur] = Append(@, SUB(Head(replay)))]
          /\ (/\ cur > 0 /\ alive /\ phase = "Connected"
              /\ sendq[cur] # <<>>
              /\ Head(sendq[cur]).op = "SUB"
              /\ sendq'[cur] = Tail(sendq[cur])) =>
                 svw'[cur] = [pc |-> "send", f |-> Head(sendq[cur])]
          /\ (/\ cur > 0 /\ alive
              /\ dpc[cur] = "idle"
              /\ svw[cur].pc = "send"
              /\ svw[cur].f.op = "SUB"
              /\ svw'[cur].pc = "idle") =>
                 written'[inner] = Append(written[inner], svw[cur].f)]_vars

\* C9 (as claimed): with subscribe_on_reconnect = false, when the reconnect
\* handler has run the registry is empty, and a stream whose subscription the
\* handler closed and cleared yields no message any more.
C9_NoYieldAfterReconnect ==
    [][/\ (~sor /\ hpc = "hooks" /\ hpc' = "idle") => subs_map' = EmptyMap
       /\ \A s \in cleared : yielded'[s] = yielded[s]]_vars

\* C9 (amended): with subscribe_on_reconnect = false, the handler's close
\* loop leaves a CLOSE in the queue of every registered sink whose stream has
\* not ended or been dropped; the clear step leaves the registry empty; the
\* entry of a cleared sid never comes back, so its sender is gone and its
\* queue only shrinks; and a cleared stream changes only by ending (on
\* CLOSE, or on the end of its queue: the case of an entry registered
\* between the close loop and the clear) or by being dropped.  What was
\* queued before the CLOSE is still yielded.
C9_CloseOnReconnect ==
    [][/\ (~sor /\ hpc = "closing" /\ hpc' = "clear") =>
              \A s \in DOMAIN subs_map :
                  \/ stream[s] \in {"done", "dropped"}
                  \/ \E i \in 1..Len(chan[s]) : chan[s][i] = SinkClose
       /\ (~sor /\ hpc = "clear" /\ hpc' # hpc) =>
              /\ subs_map' = EmptyMap
              /\ cleared' = cleared \cup DOMAIN subs_map
       /\ \A s \in cleared :
              /\ s \notin DOMAIN subs_map'
              /\ chan'[s] = chan[s] \/ chan'[s] = Tail(chan[s])
              /\ stream'[s] # stream[s] => stream'[s] \in {"done", "dropped"}
              /\ (stream[s] = "open" /\ stream'[s] = "done") =>
                     \/ chan[s] = <<>>
                     \/ Head(chan[s]) = SinkClose]_vars

\* C9 witness: the handler has run; one cleared stream has yielded, after
\* the clear, a message queued before its CLOSE and has ended; the other was
\* registered between the close loop and the clear (it is open and holds no
\* CLOSE).
C9_Witness ==
    /\ ~sor
    /\ hpc = "idle"
    /\ version > 0
    /\ \E s \in cleared : stream[s] = "done" /\ yielded[s] # <<>>
    /\ \E s \in cleared : stream[s] = "open" /\ chan[s] = <<>>

\* C10 (as claimed): subscribe(sid) has returned its stream, the registry
\* holds that entry alone, and unsubscribe(sid) without max_msgs is the next
\* call: the call's step on the registry (client.rs:413-417, the only one it
\* makes) leaves the registry empty.
C10_UnsubscribeDeregisters ==
    [][\A s \in Sids :
          (/\ nOps = 1
           /\ nOps' = 2
           /\ stream[s] = "open"
           /\ DOMAIN subs_map = {s}
           /\ \E u \in unsubbing' \ unsubbing : u.sid = s /\ u.max = None)
          => subs_map' = EmptyMap]_vars

\* C11: request takes the first item of its inbox stream: a message is
\* returned as it was queued and the inbox sid leaves the registry, every
\* other entry untouched; a stream that has ended (CLOSE, or its sender gone
\* with nothing queued) gives InnerBrokenChain.  The inbox queue receives the
\* payload of each MSG addressed to the inbox sid.
C11_RequestReply ==
    [][/\ (req.pc = "await" /\ req'.pc = "done") =>
              /\ chan[InboxSid] = <<>> \/ Head(chan[InboxSid]).k = "CLOSE"
              /\ ret'.op = "request"
              /\ ret'.res = Result("InnerBrokenChain", 0)
              /\ subs_map' = subs_map
       /\ (req.pc = "await" /\ req'.pc = "reply") =>
              /\ chan[InboxSid] # <<>>
              /\ Head(chan[InboxSid]).k = "Message"
              /\ taken'[InboxSid] = Some(Head(chan[InboxSid]))
       /\ (req.pc = "await" /\ req' # req) =>
              (req'.pc = "reply" <=>
                  (chan[InboxSid] # <<>> /\ Head(chan[InboxSid]).k = "Message"))
       /\ (req.pc = "reply" /\ req' # req) =>
              /\ req'.pc = "done"
              /\ ret'.op = "request"
              /\ ret'.res = Result("Message", Get(taken[InboxSid]).v)
              /\ InboxSid \notin DOMAIN subs_map'
              /\ subs_map' = Remove(subs_map, InboxSid)
       /\ (rx'.n # rx.n /\ rx'.f.op = "MSG" /\ rx'.f.sid = InboxSid
              /\ InboxSid \in DOMAIN subs_map /\ stream[InboxSid] # "dropped") =>
              chan'[InboxSid] = Append(chan[InboxSid], Message(rx'.f.v))]_vars

\* C11 witness: the request has returned the reply and the registry, empty
\* before the request, is empty again.
C11_Witness ==
    /\ req.pc = "done"
    /\ ret.res.k = "Message"
    /\ subs_map = EmptyMap
    /\ \E i \in 1..Len(sendq[0]) : sendq[0][i].op = "PUB"

\* C12 (as claimed): the pinger leaves the Connected state at the tick whose
\* increment takes the outstanding-ping count above ping_max_out, and at no
\* other tick: the increment goes on to the breach (client state
\* Disconnected, trigger_reconnect) exactly when the count it leaves is
\* above ping_max_out.
C12_BreachAtMaxOut ==
    [][(ppc = "inc" /\ ppc' # "inc") =>
          ((ping_attempts' > PingMaxOut) <=> (ppc' = "breach"))]_vars

\* C13 (as claimed): the outstanding-ping counter is zero in the state in
\* which the control loop has finished handling a PING, a PONG or an INFO,
\* and in the state in which the reconnect handler has bound the new
\* connection, whatever the pinger does in between.
C13_CounterZero ==
    [][/\ \A g \in Gens :
              /\ (cpc[g].pc \in {"pong", "state"} /\ cpc'[g].pc = "idle")
                     => ping_attempts' = 0
              /\ (/\ cpc[g].pc = "idle"
                  /\ control[g] # <<>>
                  /\ Head(control[g]).op = "PONG"
                  /\ control'[g] = Tail(control[g]))
                     => ping_attempts' = 0
       /\ (hpc = "bind" /\ hpc' # hpc) => ping_attempts' = 0]_vars

\* C14 (as claimed): a frame handed to the sink while the phase is not
\* Connected, or while the transport lock is busy, is not lost: a frame the
\* sink takes from the sender stays in the hands of its start_send, and a
\* start_send that returns, the transport not having reported
\* ServerDisconnected, has appended its frame to what a transport has
\* written.
C14_NoFrameDropped ==
    [][\A g \in Gens :
          /\ (sendq[g] # <<>> /\ sendq'[g] = Tail(sendq[g])) =>
                 svw'[g] = [pc |-> "send", f |-> Head(sendq[g])]
          /\ (svw[g].pc = "send" /\ svw'[g].pc = "idle" /\ alive) =>
                 \E t \in Gens : written'[t] = Append(written[t], svw[g].f)]_vars

\* C15: a view call to which the transport reports ServerDisconnected
\* invokes the reconnect trigger, writes nothing, and gives its caller Ok
\* (start_send) or Pending (poll_flush, poll_next); no view call gives its
\* caller an error or the end of the stream.
C15_DisconnectHandled ==
    [][/\ \A o \in outcomes' :
              /\ o[3] \in {"Ok", "Pending", "Ready"}
              /\ o[2] = "ServerDisconnected" =>
                     o[3] = (IF o[1] = "start_send" THEN "Ok" ELSE "Pending")
       /\ \A o \in outcomes' \ outcomes :
              o[2] = "ServerDisconnected" =>
                  /\ \E t \in {"sink", "stream"} :
                         trig[t].pc = "idle" /\ trig'[t].pc = "read"
                  /\ written' = written
                  /\ rx' = rx
                  /\ chan' = chan]_vars

\* C15 witness: start_send and poll_next have both met the dead transport,
\* both callers went through the trigger, and the reconnect has completed.
C15_Witness ==
    /\ <<"start_send", "ServerDisconnected", "Ok">> \in outcomes
    /\ <<"poll_next", "ServerDisconnected", "Pending">> \in outcomes
    /\ version > 0
    /\ phase = "Connected"

\* C16 (as claimed): a connect call with ensure_connect = true never ends in
\* an error.
C16_NeverAnError ==
    (cc.pc = "done" /\ cc.ensure) => cc.res = "Ok"

\* C16 (amended): a connect call with ensure_connect = true never ends in
\* NoRouteToHostError and never ends at a failed attempt: it ends with a
\* client in the attempt that gets a connection, or with InnerBrokenChain
\* when the timer of the reconnect_timeout wait fails.  With ensure_connect =
\* false the call makes one attempt, never waits, and ends with a client or
\* with NoRouteToHostError.
C16_EnsureConnect ==
    [][/\ (cc'.pc = "done" /\ cc'.ensure) => cc'.res \in {"Ok", "InnerBrokenChain"}
       /\ (cc.pc # "done" /\ cc'.pc = "done" /\ cc'.res = "Ok") =>
              /\ cc.pc = "create"
              /\ GetConnInner(cc.uris, reachable)
       /\ (cc.pc # "done" /\ cc'.pc = "done" /\ cc'.res = "InnerBrokenChain") =>
              /\ cc.pc = "delay"
              /\ cc'.tries = cc.tries
       /\ (cc.pc = "create" /\ cc.ensure /\ cc'.pc = "done") =>
              GetConnInner(cc.uris, reachable)
       /\ cc'.tries \in {cc.tries, cc.tries + 1}
       /\ cc'.tries = cc.tries + 1 <=> (cc.pc = "create" /\ cc'.pc # "create")
       /\ cc.pc = "done" => cc' = cc
       /\ (cc'.pc = "done" /\ ~cc'.ensure) =>
              /\ cc'.tries = 1
              /\ cc'.res \in {"Ok", "NoRouteToHostError"}
       /\ ~cc'.ensure => cc'.pc # "delay"]_vars

\* C16 witness: with ensure_connect = true the call has returned a client in
\* its third attempt, after two failed ones.
C16_Witness ==
    /\ cc.pc = "done"
    /\ cc.ensure
    /\ cc.res = "Ok"
    /\ cc.tries = MaxTries

\* C17 (as claimed): the reconnect hooks are called once per registered
\* handler, never for a handler that is not registered, and only when the
\* handshake on the new transport is complete: its INFO has been received
\* and a CONNECT has been handed over for it.
C17_HooksAfterHandshake ==
    [][(hpc = "hooks" /\ hpc' = "idle") =>
          /\ \A h \in Hids :
                 called'[h] = called[h] + (IF h \in reconnect_handlers THEN 1 ELSE 0)
          /\ reconnect_handlers # {} =>
                 /\ ~infoDue
                 /\ \E g \in Gens :
                        \E i \in 1..Len(sendq[g]) : sendq[g][i].op = "CONNECT"]_vars

\* C18 (as claimed): once the user has dropped a subscription's stream, the
\* next MSG the demultiplexer routes to that sid removes the registry entry;
\* and that MSG leaves every other sink's queue and the control channel as
\* they were.
C18_DroppedEntryRemoved ==
    [][\A sid \in Sids :
          (/\ rx'.n # rx.n
           /\ rx'.f.op = "MSG"
           /\ rx'.f.sid = sid
           /\ stream[sid] = "dropped"
           /\ sid \in DOMAIN subs_map)
              => /\ sid \notin DOMAIN subs_map'
                 /\ control' = control
                 /\ \A o \in Sids \ {sid} : chan'[o] = chan[o]]_vars

\* C19 (as claimed): the client state is Connected only when the handshake
\* on the installed transport is complete; in particular the step in which
\* the reconnect handler sets Connected happens only after the new
\* transport's INFO has been received and a CONNECT handed over for it.
C19_ConnectedAfterHandshake ==
    [][(hpc = "state" /\ hpc' = "connect" /\ clientState' = "Connected") =>
          /\ ~infoDue
          /\ \E i \in 1..Len(sendq[cur]) : sendq[cur][i].op = "CONNECT"]_vars

\* C20: the decision of trigger_reconnect leaves (phase, version), the
\* transport and the dial tasks as they are and returns when the phase is
\* Reconnecting, or Connected with a version above the one the caller read;
\* otherwise it sets (Disconnected, same version) and goes on to
\* reconnect().  reconnect() dials only after moving Disconnected to
\* Reconnecting at the same version, and does nothing from any other phase.
C20_TriggerDecision ==
    [][/\ \A t \in Triggerers :
              /\ (trig[t].pc = "decide" /\ trig'[t].pc # "decide") =>
                     IF \/ phase = "Reconnecting"
                        \/ (phase = "Connected" /\ version > trig[t].v0)
                        THEN /\ connState' = connState
                             /\ inner' = inner
                             /\ dial' = dial
                             /\ trig'[t].pc = "idle"
                        ELSE /\ connState' = <<"Disconnected", version>>
                             /\ inner' = inner
                             /\ dial' = dial
                             /\ trig'[t].pc = "reconnect"
              /\ (trig[t].pc = "reconnect" /\ trig'[t].pc # "reconnect") =>
                     /\ inner' = inner
                     /\ dial' = dial
                     /\ IF phase = "Disconnected"
                           THEN /\ connState' = <<"Reconnecting", version>>
                                /\ trig'[t].pc = "hosts"
                           ELSE /\ connState' = connState
                                /\ trig'[t].pc = "idle"
       /\ \A d \in DialIds :
              (dial[d].pc = "free" /\ dial'[d].pc = "dialing") =>
                  /\ connState = <<"Reconnecting", version>>
                  /\ connState' = connState
                  /\ \E t \in Triggerers :
                         trig[t].pc = "spawn" /\ trig'[t].pc = "idle"]_vars

\* C20 witness: a caller that read the old version reaches its decision
\* after another caller's reconnect has completed.
C20_Witness ==
    /\ phase = "Connected"
    /\ \E t \in Triggerers : trig[t].pc = "decide" /\ version > trig[t].v0

\* C21 (as claimed): once a reconnect attempt has failed (phase
\* Disconnected, a retry scheduled or running) while one of the configured
\* endpoints, which is a candidate of every attempt, is reachable and stays
\* reachable, the connection eventually reaches phase Connected.  (Stated
\* for the versions below MaxVersion, after which no dial is explored.)
C21_RetryReachesConnected ==
    (/\ phase = "Disconnected"
     /\ version < MaxVersion
     /\ \E i \in 1..Len(init_hosts) : init_hosts[i] \in reachable)
        ~> (phase = "Connected")

\* C22 (as claimed): a request that passes the payload check registers the
\* inbox sink and hands the sender SUB(inbox), UNSUB(inbox, 1) and
\* PUB(reply_to = inbox) in that order, and between its SUB and its PUB no
\* other call (publish, subscribe, unsubscribe) hands the sender a frame.
C22_RequestAtomic ==
    [][/\ (req.pc = "forsid" /\ req' # req) =>
              /\ req'.pc = "sub"
              /\ InboxSid \in DOMAIN subs_map'
              /\ sendq' = sendq
       /\ (req.pc = "sub" /\ req' # req) =>
              /\ req'.pc = "unsub"
              /\ sendq' = [sendq EXCEPT ![cur] = Append(@, SUB(InboxSid))]
       /\ (req.pc = "unsub" /\ req' # req) =>
              /\ req'.pc = "pub"
              /\ sendq' = [sendq EXCEPT ![cur] = Append(@, UNSUB(InboxSid, Some(1)))]
       /\ (req.pc = "pub" /\ req' # req) =>
              /\ req'.pc = "await"
              /\ sendq' = [sendq EXCEPT ![cur] = Append(@, Frame("PUB", InboxSid, req.len))]
       /\ (/\ req.pc \in {"unsub", "pub"}
           /\ req' = req
           /\ (pubc' # pubc \/ unsubbing' # unsubbing \/ stream' # stream)) =>
              \A g \in Gens : Len(sendq'[g]) <= Len(sendq[g])]_vars

\* C23 (as claimed): when a control loop has handled INFO(s), the stored
\* server info is s, the endpoint list is the connect_urls of s together with
\* the configured endpoints and nothing else, and the client state is
\* Connected; on its way the loop hands CONNECT to the sender; and a
\* reconnect dials the endpoint list as its reconnect() read it.
C23_InfoHandled ==
    [][/\ \A g \in Gens :
              /\ (cpc[g].pc = "state" /\ cpc'[g].pc = "idle") =>
                     LET s == cpc[g].f IN
                     /\ server_info' = Some([max_payload |-> s.v, connect_urls |-> s.urls])
                     /\ {reconnect_hosts'[i] : i \in 1..Len(reconnect_hosts')}
                          = {init_hosts[i] : i \in 1..Len(init_hosts)}
                               \cup {s.urls[i] : i \in 1..Len(s.urls)}
                     /\ clientState' = "Connected"
              /\ (cpc[g].pc = "connect" /\ cpc'[g].pc = "state") =>
                     sendq' = [sendq EXCEPT ![cur] = Append(@, CONNECT)]
       /\ \A t \in Triggerers :
              /\ (trig[t].pc = "hosts" /\ trig'[t].pc = "spawn") =>
                     trig'[t].addrs = reconnect_hosts
              /\ (trig[t].pc = "spawn" /\ trig'[t].pc = "idle") =>
                     \E d \in DialIds : /\ dial[d].pc = "free"
                                        /\ dial'[d].pc = "dialing"
                                        /\ dial'[d].addrs = trig[t].addrs]_vars

\* C24 (as claimed): every registry entry with max_count set has counted
\* fewer messages than max_count: the count never exceeds it, and an entry
\* whose count has reached it is no longer in the registry.
C24_CountBelowMax ==
    \A sid \in DOMAIN subs_map :
        IsSome(subs_map[sid].max_count) =>
            subs_map[sid].count < Get(subs_map[sid].max_count)

\* C25 (as claimed): the sink of a subscription is registered before its
\* SUB is emitted, so a MSG for a sid whose SUB has been written to the
\* transport is always queued on that sid's sink.
C25_NoMsgDroppedAfterSub ==
    [][\A sid \in Sids :
          (/\ rx'.n # rx.n
           /\ rx'.f.op = "MSG"
           /\ rx'.f.sid = sid
           /\ \E t \in Gens : \E i \in 1..Len(written[t]) : written[t][i] = SUB(sid))
              => chan'[sid] = Append(chan[sid], Message(rx'.f.v))]_vars

\* C26 (as claimed): every subscription's stream yields its messages in the
\* order their MSG frames were read from the transport (a message carries
\* the position at which it was read), reconnects included.
C26_YieldedInReadOrder ==
    \A sid \in Sids :
        \A i, j \in 1..Len(yielded[sid]) :
            (i < j /\ yielded[sid][i].k = "Ok" /\ yielded[sid][j].k = "Ok")
                => yielded[sid][i].v < yielded[sid][j].v


\* C27: once a reconnect has succeeded (phase Connected, version above 0, the
\* new transport up), the retry that the timer of an earlier failed attempt
\* starts returns at its decision: it leaves (phase, version) alone and goes
\* on to no dial.
C27_StaleRetryReturns ==
    [][(trig["retry"].pc = "decide" /\ trig'["retry"].pc # "decide"
        /\ phase = "Connected" /\ version > 0 /\ alive)
       => (trig'["retry"].pc = "idle" /\ connState' = connState)]_vars


\* C28: once the reconnect handler has built the demultiplexer and control
\* loop of the new transport (gen = version > 0), every control frame (INFO,
\* PING, PONG, ERR) read from that transport is taken by that demultiplexer
\* and queued on its control channel; no earlier demultiplexer takes it.
C28_NewLoopHandles ==
    [][(rx'.n # rx.n /\ version > 0 /\ gen = version
        /\ rx'.f.op \in {"INFO", "PING", "PONG", "ERR"})
       => (rx'.g = gen /\ control'[gen] = Append(control[gen], rx'.f))]_vars

====
